---- MODULE Spec2Model ----
(***************************************************************************)
(* yAbleFish: the shared medical-terminology package (MedicalTerminology:  *)
(* term index, span matcher, greedy conflict resolver, code validator) and *)
(* the yAbel document parser (YAbelParser, DocumentStructureImpl).         *)
(*                                                                         *)
(* A JavaScript string is a sequence of one-character strings; offsets are *)
(* 0-based as in the source, so the character at offset i is s[i + 1].     *)
(***************************************************************************)
EXTENDS Integers, Sequences, FiniteSets, TLC

(***************************************************************************)
(* Characters and strings                                                  *)
(***************************************************************************)
Uppers ==
  <<"A","B","C","D","E","F","G","H","I","J","K","L","M",
    "N","O","P","Q","R","S","T","U","V","W","X","Y","Z">>

Lowers ==
  <<"a","b","c","d","e","f","g","h","i","j","k","l","m",
    "n","o","p","q","r","s","t","u","v","w","x","y","z">>

DigitChars ==
  {"0","1","2","3","4","5","6","7","8","9"}

UpperChars ==
  {Uppers[i] : i \in 1..26}

LowerChars ==
  {Lowers[i] : i \in 1..26}

\* \w of a JavaScript regular expression without the u flag
IsWordChar(c) ==
  c \in UpperChars \cup LowerChars \cup DigitChars \cup {"_"}

\* \s of a JavaScript regular expression (the members the model's texts use)
IsWhitespace(c) ==
  c \in {" ", "\t", "\n", "\r"}

ToLowerChar(c) ==
  IF c \in UpperChars
    THEN Lowers[CHOOSE i \in 1..26 : Uppers[i] = c]
    ELSE c

\* String.prototype.toLowerCase
ToLowerCase(s) ==
  [i \in 1..Len(s) |-> ToLowerChar(s[i])]

\* String.prototype.substring(from, to) with 0-based offsets, from <= to
Substring(s, from, to) ==
  SubSeq(s, from + 1, to)

Min(a, b) ==
  IF a <= b THEN a ELSE b

Max(a, b) ==
  IF a >= b THEN a ELSE b

Abs(n) ==
  IF n < 0 THEN -n ELSE n

\* Array.prototype.includes
Includes(seq, x) ==
  \E i \in 1..Len(seq) : seq[i] = x

\* all strings over an alphabet of length at most n
StringsUpTo(alphabet, n) ==
  UNION {[1..k -> alphabet] : k \in 0..n}

(***************************************************************************)
(* A JavaScript Map: the entries in insertion order.  set() on a present   *)
(* key replaces the value and keeps the entry's position.                  *)
(***************************************************************************)
Undefined ==
  [undefined |-> TRUE]

EmptyMap ==
  <<>>

MapHas(m, key) ==
  \E i \in 1..Len(m) : m[i].key = key

MapGet(m, key) ==
  IF MapHas(m, key)
    THEN m[CHOOSE i \in 1..Len(m) : m[i].key = key].value
    ELSE Undefined

MapSet(m, key, value) ==
  IF MapHas(m, key)
    THEN [i \in 1..Len(m) |->
            IF m[i].key = key THEN [key |-> key, value |-> value] ELSE m[i]]
    ELSE Append(m, [key |-> key, value |-> value])

MapKeys(m) ==
  {m[i].key : i \in 1..Len(m)}

(***************************************************************************)
(* MedicalTerminology.addTerm and the constructor                          *)
(***************************************************************************)
RECURSIVE IndexCodes(_, _, _)
\* term.codes.forEach(code => this.codeIndex.set(code.code, term))
IndexCodes(codeIdx, term, i) ==
  IF i > Len(term.codes)
    THEN codeIdx
    ELSE IndexCodes(MapSet(codeIdx, term.codes[i], term), term, i + 1)

RECURSIVE IndexAliases(_, _, _)
\* term.aliases.forEach(alias => this.aliasIndex.set(alias.toLowerCase(), term))
IndexAliases(aliasIdx, term, i) ==
  IF i > Len(term.aliases)
    THEN aliasIdx
    ELSE IndexAliases(MapSet(aliasIdx, ToLowerCase(term.aliases[i]), term),
                      term, i + 1)

\* the three indices of an instance: [terms, codeIndex, aliasIndex]
EmptyTerminology ==
  [terms |-> EmptyMap, codeIndex |-> EmptyMap, aliasIndex |-> EmptyMap]

addTerm(self, term) ==
  [terms      |-> MapSet(self.terms, ToLowerCase(term.term), term),
   codeIndex  |-> IndexCodes(self.codeIndex, term, 1),
   aliasIndex |-> IndexAliases(self.aliasIndex, term, 1)]

RECURSIVE AddTermsFrom(_, _, _)
AddTermsFrom(self, dictionary, i) ==
  IF i > Len(dictionary)
    THEN self
    ELSE AddTermsFrom(addTerm(self, dictionary[i]), dictionary, i + 1)

\* [...icd10Terms, ...rxnormTerms, ...allergyTerms].forEach(addTerm)
initializeTerminology(dictionary) ==
  AddTermsFrom(EmptyTerminology, dictionary, 1)

(***************************************************************************)
(* The span matcher: new RegExp(`\\b${escapeRegex(searchTerm)}\\b`, 'gi')  *)
(***************************************************************************)
RegexSpecialChars ==
  {".", "*", "+", "?", "^", "$", "{", "}", "(", ")", "|", "[", "]", "\\"}

RECURSIVE escapeRegex(_)
\* string.replace(/[.*+?^${}()|[\]\\]/g, '\\$&')
escapeRegex(string) ==
  IF string = <<>>
    THEN <<>>
    ELSE (IF Head(string) \in RegexSpecialChars
            THEN <<"\\", Head(string)>>
            ELSE <<Head(string)>>) \o escapeRegex(Tail(string))

RECURSIVE RegexAtoms(_)
\* The atoms of a pattern source: a backslash makes the next character a
\* literal, an unescaped dot matches any character but a line terminator,
\* every other character is a literal.
RegexAtoms(source) ==
  IF source = <<>>
    THEN <<>>
    ELSE IF Head(source) = "\\" /\ Len(source) >= 2
      THEN <<[any |-> FALSE, char |-> source[2]]>>
             \o RegexAtoms(Tail(Tail(source)))
      ELSE <<[any |-> Head(source) = ".", char |-> Head(source)]>>
             \o RegexAtoms(Tail(source))

\* one atom against one character under the i flag
AtomMatches(atom, c) ==
  IF atom.any
    THEN c \notin {"\n", "\r"}
    ELSE ToLowerChar(atom.char) = ToLowerChar(c)

\* \b at offset p: exactly one of the characters before and after is a \w
WordBoundary(text, p) ==
  LET before == p > 0 /\ IsWordChar(text[p])
      after  == p < Len(text) /\ IsWordChar(text[p + 1])
  IN  before # after

\* \b atoms \b matches at offset p
RegexMatchesAt(atoms, text, p) ==
  /\ p + Len(atoms) <= Len(text)
  /\ WordBoundary(text, p)
  /\ \A j \in 1..Len(atoms) : AtomMatches(atoms[j], text[p + j])
  /\ WordBoundary(text, p + Len(atoms))

RECURSIVE RegexExecAll(_, _, _, _)
\* while ((match = regex.exec(text)) !== null): with the g flag each exec
\* searches from lastIndex, the end of the previous match
RegexExecAll(atoms, text, term, lastIndex) ==
  LET hits == {p \in lastIndex..Len(text) : RegexMatchesAt(atoms, text, p)}
  IN  IF hits = {} \/ atoms = <<>>
        THEN <<>>
        ELSE LET p == CHOOSE q \in hits : \A r \in hits : q <= r
             IN  <<[term  |-> term,
                    match |-> Substring(text, p, p + Len(atoms)),
                    start |-> p,
                    end   |-> p + Len(atoms)]>>
                 \o RegexExecAll(atoms, text, term, p + Len(atoms))

\* from.forEach((value, key) => into.set(key, value)): the keys in the order
\* of their first insertion, each with the value set last
MapSetAll(into, from) ==
  LET merged    == into \o from
      n         == Len(merged)
      firsts    == {i \in 1..n : \A j \in 1..(i - 1) : merged[j].key # merged[i].key}
      nth(k)    == CHOOSE i \in firsts : Cardinality({j \in firsts : j <= i}) = k
      lastOf(i) == CHOOSE j \in i..n :
                     /\ merged[j].key = merged[i].key
                     /\ \A l \in (j + 1)..n : merged[l].key # merged[i].key
  IN  [k \in 1..Cardinality(firsts) |->
         [key |-> merged[nth(k)].key, value |-> merged[lastOf(nth(k))].value]]

\* the searchTerms map: main terms first, then aliases
SearchTermsOf(self) ==
  MapSetAll(MapSetAll(EmptyMap, self.terms), self.aliasIndex)

RECURSIVE CollectMatches(_, _, _)
\* searchTerms.forEach((term, searchTerm) => ... allMatches.push(...))
CollectMatches(searchTerms, text, i) ==
  IF i > Len(searchTerms)
    THEN <<>>
    ELSE RegexExecAll(RegexAtoms(escapeRegex(searchTerms[i].key)), text,
                      searchTerms[i].value, 0)
         \o CollectMatches(searchTerms, text, i + 1)

(***************************************************************************)
(* allMatches.sort: Array.prototype.sort is stable                         *)
(***************************************************************************)
\* the comparator without its tie-break on the match length
CompareMatchesByStart(a, b) ==
  a.start - b.start

\* the comparator: start ascending, then match length descending
CompareMatches(a, b) ==
  IF a.start # b.start
    THEN a.start - b.start
    ELSE Len(b.match) - Len(a.match)

RECURSIVE InsertSorted(_, _)
InsertSorted(sorted, x) ==
  IF sorted = <<>>
    THEN <<x>>
    ELSE IF CompareMatches(Head(sorted), x) <= 0
      THEN <<Head(sorted)>> \o InsertSorted(Tail(sorted), x)
      ELSE <<x>> \o sorted

RECURSIVE SortFrom(_, _, _)
SortFrom(sorted, matches, i) ==
  IF i > Len(matches)
    THEN sorted
    ELSE SortFrom(InsertSorted(sorted, matches[i]), matches, i + 1)

\* the candidates left in the order of collection
SortMatchesSkipped(matches) ==
  matches

SortMatches(matches) ==
  SortFrom(<<>>, matches, 1)

(***************************************************************************)
(* The greedy conflict resolver                                            *)
(***************************************************************************)
ContextDistance ==
  10

\* the punctuation of the class of the between-text test: hyphen, en dash
\* (U+2013), em dash (U+2014), comma, semicolon, colon, full stop
ContextPunctuation ==
  {"-", "U+2013", "U+2014", ",", ";", ":", "."}

\* the overlap test against the wrong end: a candidate inside an accepted
\* span passes
DirectOverlapPastEnd(candidate, existing) ==
  candidate.start < existing.end /\ candidate.end > existing.end

DirectOverlap(candidate, existing) ==
  candidate.start < existing.end /\ candidate.end > existing.start

\* distance <= 10 and betweenText is made of whitespace and that punctuation
IsCloseWithPunctuation(candidate, existing, text) ==
  LET distance    == Abs(candidate.start - existing.end)
      betweenText == Substring(text, Min(existing.end, candidate.start),
                                     Max(existing.end, candidate.start))
  IN  /\ distance <= ContextDistance
      /\ \A i \in 1..Len(betweenText) :
            IsWhitespace(betweenText[i]) \/ betweenText[i] \in ContextPunctuation

\* one term names the other in its aliases, or both have the same name
AliasEquivalent(candidate, existing) ==
  \/ Includes(candidate.term.aliases, ToLowerCase(existing.term.term))
  \/ Includes(existing.term.aliases, ToLowerCase(candidate.term.term))
  \/ ToLowerCase(candidate.term.term) = ToLowerCase(existing.term.term)

\* the test without the contextual rule
ConflictsWithOverlapOnly(candidate, existing, text) ==
  DirectOverlap(candidate, existing)

ConflictsWith(candidate, existing, text) ==
  \/ DirectOverlap(candidate, existing)
  \/ /\ IsCloseWithPunctuation(candidate, existing, text)
     /\ AliasEquivalent(candidate, existing)

\* greedyMatches.some(existing => ...)
HasConflict(candidate, greedy, text) ==
  \E i \in 1..Len(greedy) : ConflictsWith(candidate, greedy[i], text)

\* the iteration that lets a conflicting candidate take the place of the
\* annotation accepted last
GreedyStepReplacing(greedy, candidate, text) ==
  IF HasConflict(candidate, greedy, text)
    THEN [greedy EXCEPT ![Len(greedy)] = candidate]
    ELSE Append(greedy, candidate)

\* one iteration of `for (const candidate of allMatches)`
GreedyStep(greedy, candidate, text) ==
  IF HasConflict(candidate, greedy, text)
    THEN greedy
    ELSE Append(greedy, candidate)

\* greedyMatches.forEach(match => results.push({...}))
FinalFormat(greedy) ==
  [i \in 1..Len(greedy) |->
     [term       |-> greedy[i].term,
      match      |-> greedy[i].match,
      start      |-> greedy[i].start,
      end        |-> greedy[i].end,
      startIndex |-> greedy[i].start,
      endIndex   |-> greedy[i].end]]

RECURSIVE GreedyFrom(_, _, _, _)
GreedyFrom(greedy, sorted, text, i) ==
  IF i > Len(sorted)
    THEN greedy
    ELSE GreedyFrom(GreedyStep(greedy, sorted[i], text), sorted, text, i + 1)

\* the call as a whole, on an instance built from a dictionary
findTermsInText(self, text) ==
  FinalFormat(GreedyFrom(<<>>,
                SortMatches(CollectMatches(SearchTermsOf(self), text, 1)),
                text, 1))

(***************************************************************************)
(* getTerm, getTermByCode, validateCode                                    *)
(***************************************************************************)
\* the two lookups in the other order
getTermAliasFirst(self, term) ==
  IF MapGet(self.aliasIndex, ToLowerCase(term)) # Undefined
    THEN MapGet(self.aliasIndex, ToLowerCase(term))
    ELSE MapGet(self.terms, ToLowerCase(term))

\* this.terms.get(term.toLowerCase()) || this.aliasIndex.get(term.toLowerCase())
getTerm(self, term) ==
  IF MapGet(self.terms, ToLowerCase(term)) # Undefined
    THEN MapGet(self.terms, ToLowerCase(term))
    ELSE MapGet(self.aliasIndex, ToLowerCase(term))

getTermByCode(self, code) ==
  MapGet(self.codeIndex, code)

\* the pattern with a decimal suffix of at most two digits
LooksLikeIcd10ShortSuffix(code) ==
  /\ Len(code) \in {3, 5, 6}
  /\ code[1] \in UpperChars
  /\ code[2] \in DigitChars
  /\ code[3] \in DigitChars
  /\ Len(code) > 3 => code[4] = "." /\ \A i \in 5..Len(code) : code[i] \in DigitChars

\* /^[A-Z]\d{2}(\.\d+)?$/
LooksLikeIcd10(code) ==
  /\ Len(code) >= 3
  /\ code[1] \in UpperChars
  /\ code[2] \in DigitChars
  /\ code[3] \in DigitChars
  /\ \/ Len(code) = 3
     \/ /\ Len(code) >= 5
        /\ code[4] = "."
        /\ \A i \in 5..Len(code) : code[i] \in DigitChars

\* /^\d+$/
LooksLikeRxNorm(code) ==
  /\ Len(code) >= 1
  /\ \A i \in 1..Len(code) : code[i] \in DigitChars

validateCode(self, code) ==
  LET term == getTermByCode(self, code)
  IN  IF term # Undefined
        THEN [valid |-> TRUE, term |-> term, message |-> "none"]
        ELSE IF LooksLikeIcd10(code)
          THEN [valid |-> FALSE, term |-> Undefined, message |-> "ICD-10 code not found in terminology database"]
          ELSE IF LooksLikeRxNorm(code)
            THEN [valid |-> FALSE, term |-> Undefined, message |-> "RxNorm code not found in terminology database"]
            ELSE [valid |-> FALSE, term |-> Undefined, message |-> "Invalid code format"]

(***************************************************************************)
(* The dictionary of initializeTerminology, in registration order          *)
(***************************************************************************)
ShippedDictionary ==
  << [term |-> <<"h","y","p","e","r","t","e","n","s","i","o","n">>,
      codes |-> <<<<"I","1","0">>, <<"3","8","3","4","1","0","0","3">>>>,
      aliases |-> <<<<"h","i","g","h"," ","b","l","o","o","d"," ","p","r","e","s","s","u","r","e">>, <<"h","t","n">>>>],
     [term |-> <<"c","o","n","g","e","s","t","i","v","e"," ","h","e","a","r","t"," ","f","a","i","l","u","r","e">>,
      codes |-> <<<<"I","5","0",".","9">>>>,
      aliases |-> <<<<"c","h","f">>, <<"h","e","a","r","t"," ","f","a","i","l","u","r","e">>>>],
     [term |-> <<"a","t","r","i","a","l"," ","f","i","b","r","i","l","l","a","t","i","o","n">>,
      codes |-> <<<<"I","4","8",".","9","1">>, <<"I","4","8",".","0">>>>,
      aliases |-> <<<<"a","f","i","b">>, <<"a","-","f","i","b">>, <<"a","t","r","i","a","l"," ","f","i","b">>>>],
     [term |-> <<"c","h","e","s","t"," ","p","a","i","n">>,
      codes |-> <<<<"R","0","6",".","0","2">>, <<"R","0","7",".","8","9">>, <<"R","0","7",".","9">>>>,
      aliases |-> <<<<"t","h","o","r","a","c","i","c"," ","p","a","i","n">>, <<"c","h","e","s","t"," ","d","i","s","c","o","m","f","o","r","t">>>>],
     [term |-> <<"d","i","a","b","e","t","e","s"," ","m","e","l","l","i","t","u","s">>,
      codes |-> <<<<"E","1","1",".","9">>, <<"E","1","0",".","9">>>>,
      aliases |-> <<<<"d","i","a","b","e","t","e","s">>, <<"d","m">>, <<"t","y","p","e"," ","2"," ","d","i","a","b","e","t","e","s">>, <<"t","y","p","e"," ","1"," ","d","i","a","b","e","t","e","s">>, <<"t","2","d","m">>, <<"t","1","d","m">>, <<"d","i","a","b","e","t","i","c">>>>],
     [term |-> <<"s","h","o","r","t","n","e","s","s"," ","o","f"," ","b","r","e","a","t","h">>,
      codes |-> <<<<"R","0","6",".","0","2">>>>,
      aliases |-> <<<<"d","y","s","p","n","e","a">>, <<"s","o","b">>, <<"d","i","f","f","i","c","u","l","t","y"," ","b","r","e","a","t","h","i","n","g">>>>],
     [term |-> <<"l","i","s","i","n","o","p","r","i","l"," ","1","0"," ","m","g">>,
      codes |-> <<<<"3","1","4","0","7","6">>>>,
      aliases |-> <<<<"l","i","s","i","n","o","p","r","i","l"," ","1","0","m","g">>, <<"l","i","s","i","n","o","p","r","i","l"," ","1","0","m","g"," ","t","a","b","l","e","t">>>>],
     [term |-> <<"l","i","s","i","n","o","p","r","i","l"," ","5"," ","m","g">>,
      codes |-> <<<<"3","1","4","0","7","7">>>>,
      aliases |-> <<<<"l","i","s","i","n","o","p","r","i","l"," ","5","m","g"," ","t","a","b","l","e","t">>, <<"l","i","s","i","n","o","p","r","i","l"," ","5"," ","m","g"," ","d","a","i","l","y">>>>],
     [term |-> <<"m","e","t","f","o","r","m","i","n">>,
      codes |-> <<<<"6","8","0","9">>>>,
      aliases |-> <<<<"m","e","t","f","o","r","m","i","n"," ","1","0","0","0"," ","m","g">>, <<"m","e","t","f","o","r","m","i","n"," ","t","w","i","c","e"," ","d","a","i","l","y">>, <<"m","e","t","f","o","r","m","i","n"," ","1","0","0","0"," ","m","g"," ","t","w","i","c","e"," ","d","a","i","l","y">>>>],
     [term |-> <<"i","n","s","u","l","i","n"," ","g","l","a","r","g","i","n","e">>,
      codes |-> <<<<"2","7","4","7","8","3">>>>,
      aliases |-> <<<<"i","n","s","u","l","i","n"," ","g","l","a","r","g","i","n","e"," ","2","0"," ","u","n","i","t","s">>, <<"g","l","a","r","g","i","n","e"," ","i","n","s","u","l","i","n">>, <<"l","o","n","g","-","a","c","t","i","n","g"," ","i","n","s","u","l","i","n">>>>],
     [term |-> <<"w","a","r","f","a","r","i","n"," ","5"," ","m","g">>,
      codes |-> <<<<"8","5","5","3","3","2">>>>,
      aliases |-> <<<<"c","o","u","m","a","d","i","n"," ","5"," ","m","g">>, <<"w","a","r","f","a","r","i","n"," ","s","o","d","i","u","m"," ","5","m","g">>>>],
     [term |-> <<"f","u","r","o","s","e","m","i","d","e"," ","2","0"," ","m","g">>,
      codes |-> <<<<"3","1","0","4","2","9">>>>,
      aliases |-> <<<<"l","a","s","i","x"," ","2","0"," ","m","g">>, <<"f","u","r","o","s","e","m","i","d","e"," ","2","0","m","g">>>>],
     [term |-> <<"p","e","n","i","c","i","l","l","i","n"," ","a","l","l","e","r","g","y">>,
      codes |-> <<<<"Z","8","8",".","0">>>>,
      aliases |-> <<<<"p","e","n","i","c","i","l","l","i","n">>, <<"p","c","n"," ","a","l","l","e","r","g","y">>>>],
     [term |-> <<"s","u","l","f","o","n","a","m","i","d","e"," ","a","l","l","e","r","g","y">>,
      codes |-> <<<<"Z","8","8",".","2">>>>,
      aliases |-> <<<<"s","u","l","f","a"," ","a","l","l","e","r","g","y">>, <<"s","u","l","f","o","n","a","m","i","d","e","s">>>>] >>

(***************************************************************************)
(* YAbelParser: string helpers                                             *)
(***************************************************************************)
RECURSIVE TrimStart(_)
TrimStart(s) ==
  IF s # <<>> /\ IsWhitespace(Head(s)) THEN TrimStart(Tail(s)) ELSE s

RECURSIVE TrimEnd(_)
TrimEnd(s) ==
  IF s # <<>> /\ IsWhitespace(s[Len(s)])
    THEN TrimEnd(SubSeq(s, 1, Len(s) - 1))
    ELSE s

\* String.prototype.trim
Trim(s) ==
  TrimEnd(TrimStart(s))

RECURSIVE Split(_, _)
\* String.prototype.split(sep) for a one-character separator
Split(s, sep) ==
  LET cuts == {i \in 1..Len(s) : s[i] = sep}
  IN  IF cuts = {}
        THEN <<s>>
        ELSE LET i == CHOOSE c \in cuts : \A d \in cuts : c <= d
             IN  <<SubSeq(s, 1, i - 1)>> \o Split(SubSeq(s, i + 1, Len(s)), sep)

RECURSIVE Join(_, _)
\* Array.prototype.join(sep)
Join(parts, sep) ==
  IF parts = <<>>
    THEN <<>>
    ELSE IF Len(parts) = 1
      THEN parts[1]
      ELSE parts[1] \o <<sep>> \o Join(Tail(parts), sep)

\* String.prototype.startsWith
StartsWith(s, prefix) ==
  Len(s) >= Len(prefix) /\ SubSeq(s, 1, Len(prefix)) = prefix

\* String.prototype.includes
StringIncludes(s, part) ==
  \E i \in 0..(Len(s) - Len(part)) : SubSeq(s, i + 1, i + Len(part)) = part

\* String.prototype.indexOf for one character, -1 when absent
IndexOfChar(s, c) ==
  IF \E i \in 1..Len(s) : s[i] = c
    THEN (CHOOSE i \in 1..Len(s) : s[i] = c /\ \A j \in 1..(i - 1) : s[j] # c) - 1
    ELSE -1

\* the number of leading '#' characters
LeadingHashes(s) ==
  IF \E i \in 1..Len(s) : s[i] # "#"
    THEN (CHOOSE i \in 1..Len(s) : s[i] # "#" /\ \A j \in 1..(i - 1) : s[j] = "#") - 1
    ELSE Len(s)

MaxHeadingLevel ==
  6

\* /^#{1,6}\s+/ on a string
HeadingPrefix(s) ==
  LET n == LeadingHashes(s)
  IN  n >= 1 /\ n <= MaxHeadingLevel /\ Len(s) > n /\ IsWhitespace(s[n + 1])

\* nextLine.trim().match(/^#{1,6}\s+/): the line that ends a block
IsHeadingBreak(line) ==
  HeadingPrefix(Trim(line))

\* the pattern without the whitespace after the '#' characters
HeadingMatchWithoutSpace(line) ==
  LeadingHashes(line) \in 1..MaxHeadingLevel /\ Len(line) > LeadingHashes(line)

\* line.match(/^(#{1,6})\s+(.+)$/) on a trimmed line; . excludes line
\* terminators
HeadingMatch(line) ==
  /\ HeadingPrefix(line)
  /\ LET rest == TrimStart(SubSeq(line, LeadingHashes(line) + 1, Len(line)))
     IN  rest # <<>> /\ \A i \in 1..Len(rest) : rest[i] \notin {"\n", "\r"}

\* headingMatch[2].trim()
HeadingTitle(line) ==
  Trim(SubSeq(line, LeadingHashes(line) + 1, Len(line)))

\* the smallest of a set of line offsets, the number of lines when empty
FirstOffset(hits, lines) ==
  IF hits = {}
    THEN Len(lines)
    ELSE CHOOSE j \in hits : \A k \in hits : j <= k

\* the loop that runs to the last line
FirstHeadingBreakNever(lines, from) ==
  Len(lines)

\* where the loop over the lines from `from` stops at a heading line
FirstHeadingBreakFrom(lines, from) ==
  FirstOffset({j \in from..(Len(lines) - 1) : IsHeadingBreak(lines[j + 1])}, lines)

\* this.lines[i]?.length || 0
LineLength(lines, i) ==
  IF i >= 0 /\ i < Len(lines) THEN Len(lines[i + 1]) ELSE 0

(***************************************************************************)
(* YAbelParser.extractMetadata: the section type of a heading title        *)
(***************************************************************************)
\* the rules with the allergies rule tried before the medications rule
SectionTypeOfAllergiesFirst(title) ==
  LET titleLower == ToLowerCase(title)
      has(word)  == StringIncludes(titleLower, word)
  IN  IF has(<<"a","l","l","e","r","g">>)
        THEN "allergies"
      ELSE IF has(<<"m","e","d","i","c","a","t","i","o","n">>) \/ has(<<"m","e","d">>)
        THEN "medications"
      ELSE IF has(<<"c","h","i","e","f">>) \/ has(<<"c","o","m","p","l","a","i","n","t">>)
        THEN "chief-complaint"
      ELSE IF has(<<"h","p","i">>) \/ has(<<"h","i","s","t","o","r","y">>)
              \/ has(<<"i","l","l","n","e","s","s">>)
        THEN "hpi"
      ELSE IF has(<<"a","s","s","e","s","s","m","e","n","t">>) \/ has(<<"p","l","a","n">>)
        THEN "assessment-plan"
      ELSE IF has(<<"p","a","t","i","e","n","t">>)
        THEN "patient-info"
      ELSE "none"

SectionTypeOf(title) ==
  LET titleLower == ToLowerCase(title)
      has(word)  == StringIncludes(titleLower, word)
  IN  IF has(<<"m","e","d","i","c","a","t","i","o","n">>) \/ has(<<"m","e","d">>)
        THEN "medications"
      ELSE IF has(<<"a","l","l","e","r","g">>)
        THEN "allergies"
      ELSE IF has(<<"c","h","i","e","f">>) \/ has(<<"c","o","m","p","l","a","i","n","t">>)
        THEN "chief-complaint"
      ELSE IF has(<<"h","p","i">>) \/ has(<<"h","i","s","t","o","r","y">>)
              \/ has(<<"i","l","l","n","e","s","s">>)
        THEN "hpi"
      ELSE IF has(<<"a","s","s","e","s","s","m","e","n","t">>) \/ has(<<"p","l","a","n">>)
        THEN "assessment-plan"
      ELSE IF has(<<"p","a","t","i","e","n","t">>)
        THEN "patient-info"
      ELSE "none"

\* The metadata of a heading.  The patient sub-parser and the visit fields
\* are stateless functions of (title, content), both recorded in the section.
extractMetadata(title, content) ==
  [sectionType |-> SectionTypeOf(title), structuredData |-> EmptyMap]

NoMetadata ==
  [sectionType |-> "none", structuredData |-> EmptyMap]

(***************************************************************************)
(* YAbelParser.parseSection and parseStructuredSection.  Each returns the  *)
(* section (type "null" for null) and the line cursor it leaves behind.    *)
(***************************************************************************)
NullSection ==
  [type |-> "null", level |-> 0, title |-> <<>>, content |-> <<>>,
   range |-> [start |-> [line |-> 0, character |-> 0],
              end   |-> [line |-> 0, character |-> 0]],
   metadata |-> NoMetadata]

RECURSIVE StructuredData(_, _, _, _)
\* the key: value pairs of lines[from .. to - 1]
StructuredData(data, lines, from, to) ==
  IF from >= to
    THEN data
    ELSE LET trimmed == Trim(lines[from + 1])
             colon   == IndexOfChar(trimmed, ":")
         IN  IF colon >= 1
               THEN StructuredData(
                      MapSet(data, Trim(SubSeq(trimmed, 1, colon)),
                             Trim(SubSeq(trimmed, colon + 2, Len(trimmed)))),
                      lines, from + 1, to)
               ELSE StructuredData(data, lines, from + 1, to)

\* the section with `endLine = this.currentLine` in place of
\* `this.currentLine - 1`
parseStructuredSectionPastEnd(lines, currentLine, startLine) ==
  LET stop    == FirstHeadingBreakFrom(lines, currentLine)
      endLine == stop
  IN  [currentLine |-> stop,
       section |->
         [type |-> "structured", level |-> 0, title |-> <<>>,
          content |-> Trim(Join(SubSeq(lines, currentLine + 1, stop), "\n")),
          range |-> [start |-> [line |-> startLine, character |-> 0],
                     end   |-> [line |-> endLine,
                                character |-> LineLength(lines, endLine)]],
          metadata |-> [sectionType |-> "none",
                        structuredData |->
                          StructuredData(EmptyMap, lines, currentLine, stop)]]]

parseStructuredSection(lines, currentLine, startLine) ==
  LET stop    == FirstHeadingBreakFrom(lines, currentLine)
      endLine == stop - 1
  IN  [currentLine |-> stop,
       section |->
         [type |-> "structured", level |-> 0, title |-> <<>>,
          content |-> Trim(Join(SubSeq(lines, currentLine + 1, stop), "\n")),
          range |-> [start |-> [line |-> startLine, character |-> 0],
                     end   |-> [line |-> endLine,
                                character |-> LineLength(lines, endLine)]],
          metadata |-> [sectionType |-> "none",
                        structuredData |->
                          StructuredData(EmptyMap, lines, currentLine, stop)]]]

\* a text block ends at a heading or at a line with a colon
IsTextBreak(line) ==
  IsHeadingBreak(line) \/ StringIncludes(line, <<":">>)

\* the text branch without `this.currentLine++` before its loop
FirstTextBreakStalled(lines, from) ==
  from - 1

\* where the loop over the lines from `from` stops at such a line
FirstTextBreakFrom(lines, from) ==
  FirstOffset({j \in from..(Len(lines) - 1) : IsTextBreak(lines[j + 1])}, lines)

parseSection(lines, currentLine) ==
  LET startLine == currentLine
      line      == IF currentLine < Len(lines)
                     THEN Trim(lines[currentLine + 1])
                     ELSE <<>>
  IN  IF line = <<>>
        THEN [currentLine |-> currentLine, section |-> NullSection]
      ELSE IF HeadingMatch(line)
        THEN LET stop    == FirstHeadingBreakFrom(lines, currentLine + 1)
                 content == Trim(Join(SubSeq(lines, currentLine + 2, stop), "\n"))
                 endLine == stop - 1
             IN  [currentLine |-> stop,
                  section |->
                    [type |-> "heading",
                     level |-> LeadingHashes(line),
                     title |-> HeadingTitle(line),
                     content |-> content,
                     range |-> [start |-> [line |-> startLine,
                                           character |-> IndexOfChar(lines[currentLine + 1], "#")],
                                end   |-> [line |-> endLine,
                                           character |-> LineLength(lines, endLine)]],
                     metadata |-> extractMetadata(HeadingTitle(line), content)]]
      ELSE IF /\ StringIncludes(line, <<":">>)
              /\ ~StartsWith(line, <<"/", "/">>)
              /\ ~StartsWith(line, <<"#">>)
        THEN parseStructuredSection(lines, currentLine, startLine)
      ELSE LET stop    == FirstTextBreakFrom(lines, currentLine + 1)
               content == Trim(Join(<<line>> \o SubSeq(lines, currentLine + 2, stop), "\n"))
           IN  IF content = <<>>
                 THEN [currentLine |-> stop, section |-> NullSection]
                 ELSE [currentLine |-> stop,
                       section |->
                         [type |-> "text", level |-> 0, title |-> <<>>,
                          content |-> content,
                          range |-> [start |-> [line |-> startLine, character |-> 0],
                                     end   |-> [line |-> stop - 1,
                                                character |-> LineLength(lines, stop - 1)]],
                          metadata |-> NoMetadata]]

(***************************************************************************)
(* DocumentStructureImpl.buildHierarchy.  A HierarchicalSection is a node  *)
(* of a table, named by its index; parent 0 means no parent.  The section  *)
(* of a node is named by its index in the linear list.                     *)
(***************************************************************************)
EmptyHierarchy ==
  [nodes |-> <<>>, root |-> <<>>, stack |-> <<>>]

RECURSIVE PopStackDeeperOnly(_, _, _)
\* the pop loop with > in place of >=
PopStackDeeperOnly(stack, nodes, level) ==
  IF stack # <<>> /\ nodes[stack[Len(stack)]].depth > level
    THEN PopStackDeeperOnly(SubSeq(stack, 1, Len(stack) - 1), nodes, level)
    ELSE stack

RECURSIVE PopStack(_, _, _)
\* while (stack.length > 0 && stack[stack.length - 1].depth >= level) stack.pop()
PopStack(stack, nodes, level) ==
  IF stack # <<>> /\ nodes[stack[Len(stack)]].depth >= level
    THEN PopStack(SubSeq(stack, 1, Len(stack) - 1), nodes, level)
    ELSE stack

\* the iteration without the pop loop: every heading nests under the heading
\* before it
HierarchyStepUnderPrevious(h, sections, i) ==
  IF sections[i].type # "heading"
    THEN h
    ELSE LET level  == IF sections[i].level # 0 THEN sections[i].level ELSE 1
             id     == Len(h.nodes) + 1
             stack  == h.stack
             parent == IF stack = <<>> THEN 0 ELSE stack[Len(stack)]
             node   == [section |-> i, children |-> <<>>,
                        parent |-> parent, depth |-> level]
             linked == IF parent = 0
                         THEN h.nodes
                         ELSE [h.nodes EXCEPT ![parent].children = Append(@, id)]
         IN  [nodes |-> Append(linked, node),
              root  |-> IF parent = 0 THEN Append(h.root, id) ELSE h.root,
              stack |-> Append(stack, id)]

\* one iteration of `for (const section of sections)`
HierarchyStep(h, sections, i) ==
  IF sections[i].type # "heading"
    THEN h
    ELSE LET level  == IF sections[i].level # 0 THEN sections[i].level ELSE 1
             id     == Len(h.nodes) + 1
             stack  == PopStack(h.stack, h.nodes, level)
             parent == IF stack = <<>> THEN 0 ELSE stack[Len(stack)]
             node   == [section |-> i, children |-> <<>>,
                        parent |-> parent, depth |-> level]
             linked == IF parent = 0
                         THEN h.nodes
                         ELSE [h.nodes EXCEPT ![parent].children = Append(@, id)]
         IN  [nodes |-> Append(linked, node),
              root  |-> IF parent = 0 THEN Append(h.root, id) ELSE h.root,
              stack |-> Append(stack, id)]

RECURSIVE HierarchyFrom(_, _, _)
HierarchyFrom(h, sections, i) ==
  IF i > Len(sections)
    THEN h
    ELSE HierarchyFrom(HierarchyStep(h, sections, i), sections, i + 1)

buildHierarchy(sections) ==
  LET h == HierarchyFrom(EmptyHierarchy, sections, 1)
  IN  [nodes |-> h.nodes, root |-> h.root]

RECURSIVE MapsFrom(_, _, _)
\* buildMaps: sectionsByType groups by section.type, sectionsByLevel by level
MapsFrom(maps, sections, i) ==
  IF i > Len(sections)
    THEN maps
    ELSE LET s      == sections[i]
             byType == MapSet(maps.sectionsByType, s.type,
                         Append(IF MapHas(maps.sectionsByType, s.type)
                                  THEN MapGet(maps.sectionsByType, s.type)
                                  ELSE <<>>, i))
             byLevel == IF s.level # 0
                          THEN MapSet(maps.sectionsByLevel, s.level,
                                 Append(IF MapHas(maps.sectionsByLevel, s.level)
                                          THEN MapGet(maps.sectionsByLevel, s.level)
                                          ELSE <<>>, i))
                          ELSE maps.sectionsByLevel
         IN  MapsFrom([sectionsByType |-> byType, sectionsByLevel |-> byLevel],
                      sections, i + 1)

buildMaps(sections) ==
  MapsFrom([sectionsByType |-> EmptyMap, sectionsByLevel |-> EmptyMap],
           sections, 1)

\* new DocumentStructureImpl(sections)
DocumentStructureImpl(sections) ==
  [linear          |-> sections,
   hierarchical    |-> buildHierarchy(sections),
   sectionsByType  |-> buildMaps(sections).sectionsByType,
   sectionsByLevel |-> buildMaps(sections).sectionsByLevel]

EmptyStructure ==
  DocumentStructureImpl(<<>>)

(***************************************************************************)
(* DocumentStructureImpl navigation.  sectionMap maps a heading section to *)
(* its node; the node of a section that is no heading is undefined (0).    *)
(***************************************************************************)
\* this.sectionMap.get(section)
sectionMapGet(structure, section) ==
  LET found == {n \in 1..Len(structure.hierarchical.nodes) :
                  structure.hierarchical.nodes[n].section = section}
  IN  IF found = {} THEN 0 ELSE CHOOSE n \in found : TRUE

\* siblings.indexOf(hierarchical), 0-based, -1 when absent
IndexOfNode(siblings, node) ==
  LET found == {i \in 1..Len(siblings) : siblings[i] = node}
  IN  IF found = {} THEN -1 ELSE (CHOOSE i \in found : \A j \in found : i <= j) - 1

getNextSibling(structure, section) ==
  LET nodes        == structure.hierarchical.nodes
      hierarchical == sectionMapGet(structure, section)
  IN  IF hierarchical = 0 \/ nodes[hierarchical].parent = 0
        THEN 0
        ELSE LET siblings == nodes[nodes[hierarchical].parent].children
                 index    == IndexOfNode(siblings, hierarchical)
             IN  IF index < Len(siblings) - 1
                   THEN nodes[siblings[index + 2]].section
                   ELSE 0

getPreviousSibling(structure, section) ==
  LET nodes        == structure.hierarchical.nodes
      hierarchical == sectionMapGet(structure, section)
  IN  IF hierarchical = 0 \/ nodes[hierarchical].parent = 0
        THEN 0
        ELSE LET siblings == nodes[nodes[hierarchical].parent].children
                 index    == IndexOfNode(siblings, hierarchical)
             IN  IF index > 0
                   THEN nodes[siblings[index]].section
                   ELSE 0

(***************************************************************************)
(* YAbelParser.getDocumentOutline: the traversal of the hierarchy          *)
(***************************************************************************)
Untitled ==
  <<"U","n","t","i","t","l","e","d">>

RECURSIVE traverseHierarchyChildrenFirst(_, _, _)
\* the traversal that pushes a node after its children
traverseHierarchyChildrenFirst(document, ids, path) ==
  IF ids = <<>>
    THEN <<>>
    ELSE LET node        == document.structure.hierarchical.nodes[Head(ids)]
             title       == document.sections[node.section].title
             currentPath == Append(path, IF title # <<>> THEN title ELSE Untitled)
         IN  traverseHierarchyChildrenFirst(document, node.children, currentPath)
               \o <<[section |-> node.section, depth |-> node.depth, path |-> currentPath]>>
               \o traverseHierarchyChildrenFirst(document, Tail(ids), path)

RECURSIVE traverseHierarchy(_, _, _)
\* for (const node of nodes) { outline.push(...); traverseHierarchy(node.children, currentPath) }
traverseHierarchy(document, ids, path) ==
  IF ids = <<>>
    THEN <<>>
    ELSE LET node        == document.structure.hierarchical.nodes[Head(ids)]
             title       == document.sections[node.section].title
             currentPath == Append(path, IF title # <<>> THEN title ELSE Untitled)
         IN  <<[section |-> node.section, depth |-> node.depth, path |-> currentPath]>>
               \o traverseHierarchy(document, node.children, currentPath)
               \o traverseHierarchy(document, Tail(ids), path)

getDocumentOutline(document) ==
  traverseHierarchy(document, document.structure.hierarchical.root, <<>>)

(***************************************************************************)
(* YAbelParser static queries.  A document is [sections, structure]; a     *)
(* section is named by its index in the linear list, 0 for null.           *)
(***************************************************************************)
\* document.sections.find(s => s.metadata?.sectionType === sectionType) || null
getSectionByType(document, sectionType) ==
  LET found == {i \in 1..Len(document.sections) :
                  document.sections[i].metadata.sectionType = sectionType}
  IN  IF found = {}
        THEN 0
        ELSE CHOOSE i \in found : \A j \in found : i <= j

\* document.structure.sectionsByType.get(type) || []
getSectionsByType(document, type) ==
  IF MapHas(document.structure.sectionsByType, type)
    THEN MapGet(document.structure.sectionsByType, type)
    ELSE <<>>

(***************************************************************************)
(* The package-local copies of MedicalTerminology that the shared package  *)
(* replaced: the LSP server's and the browser client's                     *)
(***************************************************************************)
\* term.toLowerCase().replace(/[^\w\s]/g, ' ').replace(/\s+/g, ' ').trim()
normalizeTerm(term) ==
  LET lowered == ToLowerCase(term)
      spaced  == [i \in 1..Len(lowered) |->
                    IF IsWordChar(lowered[i]) THEN lowered[i] ELSE " "]
      kept    == {i \in 1..Len(spaced) :
                    spaced[i] # " " \/ i = 1 \/ spaced[i - 1] # " "}
  IN  Trim([k \in 1..Cardinality(kept) |->
              spaced[CHOOSE i \in kept : Cardinality({j \in kept : j <= i}) = k]])

RECURSIVE IndexNormalizedAliases(_, _, _)
\* term.aliases?.forEach(alias => this.aliasIndex.set(normalizeTerm(alias), term))
IndexNormalizedAliases(aliasIdx, term, i) ==
  IF i > Len(term.aliases)
    THEN aliasIdx
    ELSE IndexNormalizedAliases(
           MapSet(aliasIdx, normalizeTerm(term.aliases[i]), term), term, i + 1)

indexTerm(self, term) ==
  [terms      |-> MapSet(self.terms, normalizeTerm(term.term), term),
   codeIndex  |-> IndexCodes(self.codeIndex, term, 1),
   aliasIndex |-> IndexNormalizedAliases(self.aliasIndex, term, 1)]

RECURSIVE IndexTermsFrom(_, _, _)
IndexTermsFrom(self, dictionary, i) ==
  IF i > Len(dictionary)
    THEN self
    ELSE IndexTermsFrom(indexTerm(self, dictionary[i]), dictionary, i + 1)

\* the constructor of a package-local copy
LocalTerminology(dictionary) ==
  IndexTermsFrom(EmptyTerminology, dictionary, 1)

\* text.substring(match.index, match.index + match[0].length): the matches
\* are found in the lowercased text and cut from the original
CutFromOriginal(matches, text) ==
  [i \in 1..Len(matches) |->
     [matches[i] EXCEPT !.match = Substring(text, matches[i].start, matches[i].end)]]

RECURSIVE ServerCollect(_, _, _)
\* for (const [key, term] of index.entries()) with \bkey\b and the flags gi
ServerCollect(index, normalizedText, i) ==
  IF i > Len(index)
    THEN <<>>
    ELSE RegexExecAll(RegexAtoms(escapeRegex(index[i].key)), normalizedText,
                      index[i].value, 0)
         \o ServerCollect(index, normalizedText, i + 1)

\* (?<=^|[\s\n]|[^\w]) atoms (?=[\s\n]|[^\w]|$) matches at offset p
LookaroundMatchesAt(atoms, text, p) ==
  /\ p + Len(atoms) <= Len(text)
  /\ p = 0 \/ ~IsWordChar(text[p])
  /\ \A j \in 1..Len(atoms) : AtomMatches(atoms[j], text[p + j])
  /\ p + Len(atoms) = Len(text) \/ ~IsWordChar(text[p + Len(atoms) + 1])

RECURSIVE LookaroundExecAll(_, _, _, _)
LookaroundExecAll(atoms, text, term, lastIndex) ==
  LET hits == {p \in lastIndex..Len(text) : LookaroundMatchesAt(atoms, text, p)}
  IN  IF hits = {} \/ atoms = <<>>
        THEN <<>>
        ELSE LET p == CHOOSE q \in hits : \A r \in hits : q <= r
             IN  <<[term  |-> term,
                    match |-> Substring(text, p, p + Len(atoms)),
                    start |-> p,
                    end   |-> p + Len(atoms)]>>
                 \o LookaroundExecAll(atoms, text, term, p + Len(atoms))

RECURSIVE BrowserCollect(_, _, _)
\* for (const [key, term] of index.entries()) findMatches(key, term)
BrowserCollect(index, normalizedText, i) ==
  IF i > Len(index)
    THEN <<>>
    ELSE LookaroundExecAll(RegexAtoms(escapeRegex(index[i].key)), normalizedText,
                           index[i].value, 0)
         \o BrowserCollect(index, normalizedText, i + 1)

RECURSIVE InsertByStart(_, _)
\* matches.sort((a, b) => a.start - b.start), a stable sort
InsertByStart(sorted, x) ==
  IF sorted = <<>>
    THEN <<x>>
    ELSE IF Head(sorted).start - x.start <= 0
      THEN <<Head(sorted)>> \o InsertByStart(Tail(sorted), x)
      ELSE <<x>> \o sorted

RECURSIVE SortByStartFrom(_, _, _)
SortByStartFrom(sorted, matches, i) ==
  IF i > Len(matches)
    THEN sorted
    ELSE SortByStartFrom(InsertByStart(sorted, matches[i]), matches, i + 1)

\* findTermsInText of the LSP server's copy
ServerFindTermsInText(self, text) ==
  LET normalizedText == ToLowerCase(text)
      matches == ServerCollect(self.terms, normalizedText, 1)
                   \o ServerCollect(self.aliasIndex, normalizedText, 1)
  IN  SortByStartFrom(<<>>, CutFromOriginal(matches, text), 1)

\* findTermsInText of the browser client's copy
BrowserFindTermsInText(self, text) ==
  LET normalizedText == ToLowerCase(text)
      matches == BrowserCollect(self.terms, normalizedText, 1)
                   \o BrowserCollect(self.aliasIndex, normalizedText, 1)
  IN  SortByStartFrom(<<>>, CutFromOriginal(matches, text), 1)

\* the dictionaries of the two copies, in registration order
ServerShippedDictionary ==
  << [term |-> <<"h","y","p","e","r","t","e","n","s","i","o","n">>,
      codes |-> <<<<"I","1","0">>, <<"3","8","3","4","1","0","0","3">>>>,
      aliases |-> <<<<"h","i","g","h"," ","b","l","o","o","d"," ","p","r","e","s","s","u","r","e">>, <<"h","t","n">>>>],
     [term |-> <<"c","o","n","g","e","s","t","i","v","e"," ","h","e","a","r","t"," ","f","a","i","l","u","r","e">>,
      codes |-> <<<<"I","5","0",".","9">>, <<"I","5","0",".","1">>>>,
      aliases |-> <<<<"c","h","f">>, <<"h","e","a","r","t"," ","f","a","i","l","u","r","e">>, <<"c","a","r","d","i","a","c"," ","f","a","i","l","u","r","e">>>>],
     [term |-> <<"a","t","r","i","a","l"," ","f","i","b","r","i","l","l","a","t","i","o","n">>,
      codes |-> <<<<"I","4","8",".","9","1">>, <<"I","4","8",".","0">>>>,
      aliases |-> <<<<"a","f","i","b">>, <<"a","-","f","i","b">>, <<"a","t","r","i","a","l"," ","f","i","b">>>>],
     [term |-> <<"c","h","e","s","t"," ","p","a","i","n">>,
      codes |-> <<<<"R","0","6",".","0","2">>, <<"R","0","7",".","8","9">>, <<"R","0","7",".","9">>>>,
      aliases |-> <<<<"t","h","o","r","a","c","i","c"," ","p","a","i","n">>, <<"c","h","e","s","t"," ","d","i","s","c","o","m","f","o","r","t">>>>],
     [term |-> <<"s","h","o","r","t","n","e","s","s"," ","o","f"," ","b","r","e","a","t","h">>,
      codes |-> <<<<"R","0","6",".","0","2">>, <<"R","0","6",".","0","0">>>>,
      aliases |-> <<<<"d","y","s","p","n","e","a">>, <<"s","o","b">>, <<"b","r","e","a","t","h","l","e","s","s","n","e","s","s">>, <<"d","i","f","f","i","c","u","l","t","y"," ","b","r","e","a","t","h","i","n","g">>>>],
     [term |-> <<"c","o","n","t","u","s","i","o","n"," ","o","f"," ","l","e","f","t"," ","k","n","e","e">>,
      codes |-> <<<<"S","8","0",".","0","1","X","A">>>>,
      aliases |-> <<<<"k","n","e","e"," ","b","r","u","i","s","e">>, <<"k","n","e","e"," ","c","o","n","t","u","s","i","o","n">>>>],
     [term |-> <<"a","s","p","i","r","i","n"," ","8","1"," ","m","g">>,
      codes |-> <<<<"2","4","3","6","7","0">>>>,
      aliases |-> <<<<"b","a","b","y"," ","a","s","p","i","r","i","n">>, <<"l","o","w"," ","d","o","s","e"," ","a","s","p","i","r","i","n">>>>],
     [term |-> <<"l","i","s","i","n","o","p","r","i","l"," ","1","0"," ","m","g">>,
      codes |-> <<<<"3","1","4","0","7","6">>>>,
      aliases |-> <<<<"l","i","s","i","n","o","p","r","i","l"," ","1","0","m","g"," ","t","a","b","l","e","t">>>>],
     [term |-> <<"w","a","r","f","a","r","i","n"," ","5"," ","m","g">>,
      codes |-> <<<<"8","5","5","3","3","2">>>>,
      aliases |-> <<<<"c","o","u","m","a","d","i","n"," ","5"," ","m","g">>, <<"w","a","r","f","a","r","i","n"," ","s","o","d","i","u","m"," ","5","m","g">>>>],
     [term |-> <<"f","u","r","o","s","e","m","i","d","e"," ","2","0"," ","m","g">>,
      codes |-> <<<<"3","1","0","4","2","9">>>>,
      aliases |-> <<<<"l","a","s","i","x"," ","2","0"," ","m","g">>, <<"f","u","r","o","s","e","m","i","d","e"," ","2","0","m","g">>>>],
     [term |-> <<"p","e","n","i","c","i","l","l","i","n"," ","a","l","l","e","r","g","y">>,
      codes |-> <<<<"Z","8","8",".","0">>>>,
      aliases |-> <<<<"p","e","n","i","c","i","l","l","i","n">>, <<"p","c","n"," ","a","l","l","e","r","g","y">>>>],
     [term |-> <<"s","u","l","f","o","n","a","m","i","d","e"," ","a","l","l","e","r","g","y">>,
      codes |-> <<<<"Z","8","8",".","2">>>>,
      aliases |-> <<<<"s","u","l","f","a"," ","a","l","l","e","r","g","y">>, <<"s","u","l","f","o","n","a","m","i","d","e","s">>>>] >>

BrowserShippedDictionary ==
  << [term |-> <<"h","y","p","e","r","t","e","n","s","i","o","n">>,
      codes |-> <<<<"I","1","0">>>>,
      aliases |-> <<<<"h","i","g","h"," ","b","l","o","o","d"," ","p","r","e","s","s","u","r","e">>, <<"h","t","n">>>>],
     [term |-> <<"c","o","n","g","e","s","t","i","v","e"," ","h","e","a","r","t"," ","f","a","i","l","u","r","e">>,
      codes |-> <<<<"I","5","0",".","9">>>>,
      aliases |-> <<<<"c","h","f">>, <<"h","e","a","r","t"," ","f","a","i","l","u","r","e">>>>],
     [term |-> <<"a","t","r","i","a","l"," ","f","i","b","r","i","l","l","a","t","i","o","n">>,
      codes |-> <<<<"I","4","8",".","9","1">>>>,
      aliases |-> <<<<"a","f","i","b">>, <<"a","-","f","i","b">>>>],
     [term |-> <<"c","h","e","s","t"," ","p","a","i","n">>,
      codes |-> <<<<"R","0","7",".","9">>>>,
      aliases |-> <<<<"t","h","o","r","a","c","i","c"," ","p","a","i","n">>>>],
     [term |-> <<"s","h","o","r","t","n","e","s","s"," ","o","f"," ","b","r","e","a","t","h">>,
      codes |-> <<<<"R","0","6",".","0","2">>>>,
      aliases |-> <<<<"d","y","s","p","n","e","a">>, <<"s","o","b">>, <<"b","r","e","a","t","h","l","e","s","s","n","e","s","s">>>>],
     [term |-> <<"a","s","p","i","r","i","n"," ","8","1"," ","m","g">>,
      codes |-> <<<<"2","4","3","6","7","0">>>>,
      aliases |-> <<<<"b","a","b","y"," ","a","s","p","i","r","i","n">>, <<"l","o","w"," ","d","o","s","e"," ","a","s","p","i","r","i","n">>>>],
     [term |-> <<"l","i","s","i","n","o","p","r","i","l"," ","1","0"," ","m","g">>,
      codes |-> <<<<"3","1","4","0","7","6">>>>,
      aliases |-> <<>>],
     [term |-> <<"w","a","r","f","a","r","i","n"," ","5"," ","m","g">>,
      codes |-> <<<<"8","5","5","3","3","2">>>>,
      aliases |-> <<<<"c","o","u","m","a","d","i","n"," ","5"," ","m","g">>>>],
     [term |-> <<"f","u","r","o","s","e","m","i","d","e">>,
      codes |-> <<<<"4","6","0","3">>>>,
      aliases |-> <<<<"l","a","s","i","x">>>>],
     [term |-> <<"f","u","r","o","s","e","m","i","d","e"," ","2","0"," ","m","g">>,
      codes |-> <<<<"3","1","0","4","2","9">>>>,
      aliases |-> <<<<"l","a","s","i","x"," ","2","0"," ","m","g">>>>],
     [term |-> <<"p","e","n","i","c","i","l","l","i","n">>,
      codes |-> <<<<"Z","8","8",".","0">>>>,
      aliases |-> <<<<"p","c","n">>, <<"p","e","n","i","c","i","l","l","i","n","s">>>>],
     [term |-> <<"s","u","l","f","o","n","a","m","i","d","e","s">>,
      codes |-> <<<<"Z","8","8",".","2">>>>,
      aliases |-> <<<<"s","u","l","f","a">>>>],
     [term |-> <<"a","m","o","x","i","c","i","l","l","i","n">>,
      codes |-> <<<<"3","0","8","1","9","1">>>>,
      aliases |-> <<>>] >>

(***************************************************************************)
(* DiagnosticsProvider.checkAllergyConflicts.  A diagnostic is recorded by *)
(* its severity, code, allergy, the medication match, its offsets and its  *)
(* range.                                                                  *)
(***************************************************************************)
\* document.positionAt(offset): the offset is clamped to the text, the line
\* is the number of line breaks before it and the character the distance
\* from the start of that line
positionAt(document, offset) ==
  LET o      == Max(0, Min(offset, Len(document)))
      breaks == {i \in 1..o : document[i] = "\n"}
      lineAt == IF breaks = {} THEN 0 ELSE CHOOSE i \in breaks : \A j \in breaks : i >= j
  IN  [line |-> Cardinality(breaks), character |-> o - lineAt]

\* createRange(document, line, start, end): the line argument is not used
createRange(document, line, start, end) ==
  [start |-> positionAt(document, start), end |-> positionAt(document, end)]

\* the codes registered with category: 'allergy'
AllergyCategoryCodes ==
  {<<"Z","8","8",".","0">>, <<"Z","8","8",".","2">>}

\* match.term.codes.some(code => code.category === 'allergy')
HasAllergyCode(term) ==
  \E k \in 1..Len(term.codes) : term.codes[k] \in AllergyCategoryCodes

\* new Set(allergyTerms.filter(...).map(match => match.term.term.toLowerCase()))
PatientAllergies(allergyTerms) ==
  {ToLowerCase(allergyTerms[i].term.term) :
     i \in {j \in 1..Len(allergyTerms) : HasAllergyCode(allergyTerms[j].term)}}

AllergyConflict(allergy, medMatch, range) ==
  [severity |-> "Warning", code |-> "ALLERGY_CONFLICT", source |-> "yAbelFish",
   allergy |-> allergy, match |-> medMatch.match,
   start |-> medMatch.start, end |-> medMatch.end, range |-> range]

\* one iteration of medicationTerms.forEach
ConflictsOfMatch(patientAllergies, medMatch, document, line) ==
  LET medName == ToLowerCase(medMatch.term.term)
      range   == createRange(document, line, medMatch.start, medMatch.end)
      penicillin ==
        /\ \/ <<"p","e","n","i","c","i","l","l","i","n"," ","a","l","l","e","r","g","y">> \in patientAllergies
           \/ <<"p","e","n","i","c","i","l","l","i","n">> \in patientAllergies
        /\ \/ StringIncludes(medName, <<"a","m","o","x","i","c","i","l","l","i","n">>)
           \/ StringIncludes(medName, <<"a","m","p","i","c","i","l","l","i","n">>)
           \/ StringIncludes(medName, <<"p","e","n","i","c","i","l","l","i","n">>)
      sulfa ==
        /\ \/ <<"s","u","l","f","o","n","a","m","i","d","e"," ","a","l","l","e","r","g","y">> \in patientAllergies
           \/ <<"s","u","l","f","a"," ","a","l","l","e","r","g","y">> \in patientAllergies
        /\ \/ StringIncludes(medName, <<"s","u","l","f","a","m","e","t","h","o","x","a","z","o","l","e">>)
           \/ StringIncludes(medName, <<"s","u","l","f","a">>)
  IN  (IF penicillin THEN <<AllergyConflict("penicillin", medMatch, range)>> ELSE <<>>)
        \o (IF sulfa THEN <<AllergyConflict("sulfa", medMatch, range)>> ELSE <<>>)

RECURSIVE ConflictsFrom(_, _, _, _, _)
ConflictsFrom(patientAllergies, medicationTerms, i, document, line) ==
  IF i > Len(medicationTerms)
    THEN <<>>
    ELSE ConflictsOfMatch(patientAllergies, medicationTerms[i], document, line)
           \o ConflictsFrom(patientAllergies, medicationTerms, i + 1, document, line)

checkAllergyConflicts(self, parsedDoc, document) ==
  LET allergiesSection == getSectionByType(parsedDoc, "allergies")
  IN  IF allergiesSection = 0
        THEN <<>>
        ELSE LET allergyTerms ==
                   findTermsInText(self, parsedDoc.sections[allergiesSection].content)
                 patientAllergies == PatientAllergies(allergyTerms)
                 medicationsSection == getSectionByType(parsedDoc, "medications")
             IN  IF medicationsSection # 0 /\ patientAllergies # {}
                   THEN ConflictsFrom(patientAllergies,
                          findTermsInText(self,
                            parsedDoc.sections[medicationsSection].content), 1,
                          document,
                          parsedDoc.sections[medicationsSection].range.start.line + 1)
                   ELSE <<>>

(***************************************************************************)
(* Inputs                                                                  *)
(***************************************************************************)
\* the longest generated text of the span matcher
MaxTextLen ==
  4

\* calls of findTermsInText on one instance
MaxCalls ==
  2

\* the longest generated query of getTerm
MaxQueryLen ==
  3

\* the longest generated code of validateCode
MaxCodeLen ==
  7

\* the most lines of a generated document
MaxLines ==
  3

\* calls of parse on one parser instance
MaxParses ==
  3

\* a lower-case letter, its upper case, a digit, a punctuation character of
\* the between-text class that is also a regex special, and a punctuation
\* character outside the class
TextAlphabet ==
  {"a", "A", "1", ".", "/"}

Term(name, aliases) ==
  [term |-> name, codes |-> <<<<"1">>>>, aliases |-> aliases]

GenericDictionaries ==
  { <<Term(<<"a">>, <<>>)>>,
    <<Term(<<"a">>, <<<<"1">>>>)>>,
    <<Term(<<"a">>, <<>>), Term(<<"1">>, <<>>)>>,
    <<Term(<<"1",".","a">>, <<<<"a">>>>), Term(<<"1">>, <<>>)>>,
    <<Term(<<"a">>, <<<<"1">>>>), Term(<<"a","1">>, <<<<"1">>>>)>>,
    <<Term(<<"a">>, <<>>), Term(<<"A">>, <<<<"1">>>>)>>,
    <<Term(<<"a">>, <<>>), Term(<<"1">>, <<<<"a">>>>)>>,
    <<Term(<<"a">>, <<<<".","1">>>>)>>,
    <<Term(<<"a","1">>, <<<<"A">>>>)>>,
    <<Term(<<"a",".","1">>, <<>>), Term(<<"a">>, <<>>)>>,
    <<Term(<<"a">>, <<>>), Term(<<"1">>, <<<<"a","1">>>>), Term(<<"a",".","1">>, <<>>)>>,
    <<Term(<<"a">>, <<>>), Term(<<"a",".">>, <<>>)>>,
    <<Term(<<"a">>, <<<<"1">>>>), Term(<<"a","1">>, <<<<"a">>>>)>> }

Dictionaries ==
  GenericDictionaries \cup {ShippedDictionary}

ChfText ==
  <<"C","H","F"," ","-"," ","C","o","n","g","e","s","t","i","v","e"," ",
    "h","e","a","r","t"," ","f","a","i","l","u","r","e">>

HypertensionText ==
  <<"P","a","t","i","e","n","t"," ","h","a","s"," ","h","y","p","e","r","t",
    "e","n","s","i","o","n"," ","a","n","d"," ","i","s"," ","o","n"," ",
    "l","a","s","i","x"," ","2","0"," ","m","g",".">>

PenicillinsText ==
  <<"P","E","N","I","C","I","L","L","I","N","S">>

AmoxicillinText ==
  <<"a","m","o","x","i","c","i","l","l","i","n"," ","5","0","0"," ","m","g">>

ChestPainText ==
  <<"c","h","e","s","t","p","a","i","n","f","u","l"," ","c","h","e","s","t",
    " ","p","a","i","n",".">>

ScenarioTexts ==
  {ChfText, HypertensionText, PenicillinsText, AmoxicillinText, ChestPainText}

\* a text on which a short key starts where a longer key of another term does
ExtraTexts ==
  {<<"a",".","1",".","a">>}

TextsFor(dict) ==
  IF dict = ShippedDictionary
    THEN ScenarioTexts
    ELSE StringsUpTo(TextAlphabet, MaxTextLen) \cup ExtraTexts

QueriesFor(dict) ==
  IF dict = ShippedDictionary
    THEN {<<"C","H","F">>, <<"c","h","f"," ">>, <<"a"," ","f","i","b">>,
          <<"H","T","N">>}
    ELSE StringsUpTo(TextAlphabet, MaxQueryLen)

CodeAlphabet ==
  {"I", "1", "0", "."}

CodeInputs ==
  StringsUpTo(CodeAlphabet, MaxCodeLen)
    \cup {<<"A","1">>, <<"I","5","0",".","9">>, <<"6","8","0","9">>,
          <<"R","0","6",".","0","2">>, <<"i","1","0">>, <<"I","1","0"," ">>,
          <<"Z","8","8",".","0">>, <<"z","8","8",".","0">>}

LinePool ==
  { <<"#"," ","a">>, <<"#","#"," ","b">>, <<"#","#","#"," ","c">>,
    <<"x">>, <<"k",":","v">>, <<>>, <<"#","x">> }

\* a line with a carriage return inside: it matches /^#{1,6}\s+/ but not
\* /^(#{1,6})\s+(.+)$/, whose '.' stops at a line terminator
CarriageReturnLine ==
  <<"#"," ","b","\r","c">>

CarriageReturnDocuments ==
  { Join(ls, "\n") : ls \in
      { <<CarriageReturnLine>>,
        <<<<"#"," ","a">>, CarriageReturnLine>>,
        <<<<"x">>, CarriageReturnLine>>,
        <<<<"k",":","v">>, CarriageReturnLine>>,
        <<<<"#"," ","a">>, CarriageReturnLine, <<"x">>>>,
        <<<<"#"," ","a">>, CarriageReturnLine, <<"k",":","v">>>> } }

\* lines that start with '#' and are no headings: seven '#' characters,
\* and a ':' without whitespace after the '#'
SevenHashesLine ==
  <<"#","#","#","#","#","#","#"," ","a">>

HashColonLine ==
  <<"#","k",":","v">>

MalformedHeadingDocuments ==
  { Join(ls, "\n") : ls \in
      { <<SevenHashesLine>>,
        <<<<"#"," ","a">>, SevenHashesLine>>,
        <<<<"x">>, SevenHashesLine>>,
        <<SevenHashesLine, <<"#"," ","a">>>>,
        <<HashColonLine>>,
        <<<<"x">>, HashColonLine>>,
        <<<<"#"," ","a">>, HashColonLine>>,
        <<<<"k",":","v">>, HashColonLine>> } }

Documents ==
  {Join(ls, "\n") : ls \in StringsUpTo(LinePool, MaxLines)}
    \cup CarriageReturnDocuments
    \cup MalformedHeadingDocuments

\* the texts parsed between two parses of the same text
OtherDocuments ==
  { <<>>,
    Join(<<<<"#"," ","a">>, <<"x">>, <<"#","#"," ","b">>, <<"x">>, <<"k",":","v">>>>, "\n"),
    Join(<<<<"x">>, <<"#","#"," ","b">>>>, "\n") }

(***************************************************************************)
(* State                                                                   *)
(***************************************************************************)
VARIABLES
  dictionary,       \* the term entries in registration order
  terminology,      \* the MedicalTerminology instance: terms, codeIndex, aliasIndex
  text,             \* findTermsInText: the argument of the call in progress
  tpc,              \* findTermsInText: "idle", "scan" or "returned"
  allMatches,       \* findTermsInText: the sorted candidates
  greedyMatches,    \* findTermsInText: the accepted candidates
  cursor,           \* findTermsInText: the index of the candidate examined next
  results,          \* findTermsInText: the value returned last
  calls,            \* findTermsInText: calls started
  previousResults,  \* findTermsInText: the value returned by the call before
  query,            \* getTerm: the argument
  lookupResult,     \* getTerm: the value returned
  lpc,              \* getTerm: "idle" or "returned"
  code,             \* validateCode: the argument
  validation,       \* validateCode: the value returned
  vpc,              \* validateCode: "idle" or "returned"
  content,          \* parse: the argument of the call in progress
  lines,            \* YAbelParser.lines
  currentLine,      \* YAbelParser.currentLine
  sections,         \* parse: the sections collected
  structure,        \* parse: the DocumentStructureImpl returned last
  ppc,              \* parse: "idle", "loop" or "returned"
  parses,           \* parse: calls started
  firstContent,     \* parse: the argument of the first call
  firstDocument,    \* parse: the value returned by the first call
  typeQuery,        \* getSectionsByType: the type argument
  typeResult,       \* getSectionsByType: the value returned
  ipc,              \* getSectionsByType: "idle" or "returned"
  navOp,            \* getNextSibling / getPreviousSibling: "none", "next" or "previous"
  navSection,       \* getNextSibling / getPreviousSibling: the section argument
  navResult,        \* getNextSibling / getPreviousSibling: the value returned
  npc,              \* getNextSibling / getPreviousSibling: "idle" or "returned"
  outline,          \* getDocumentOutline: the value returned
  opc,              \* getDocumentOutline: "idle" or "returned"
  serverResults,    \* LSP server copy of findTermsInText: the value returned
  spc,              \* LSP server copy of findTermsInText: "idle" or "returned"
  browserResults,   \* browser copy of findTermsInText: the value returned
  bpc,              \* browser copy of findTermsInText: "idle" or "returned"
  diagnostics,      \* validateDocument: the value returned
  dpc,              \* validateDocument: "idle" or "returned"
  initialized,      \* LSP server: onInitialize has run
  hasConfigurationCapability, \* LSP server: the flag set by onInitialize
  openDocuments,    \* LSP server: documents.all(), the uris in opening order
  documentSettings, \* LSP server: the cache, uri -> settings promise (0: no entry)
  configurationRequests, \* LSP server: the promises of workspace/configuration
  validations,      \* LSP server: validateTextDocument calls awaiting a promise
  published,        \* LSP server: the sendDiagnostics calls made
  notifications,    \* LSP server: client notifications handled
  toWorker,         \* browser: the messages posted on the main thread's port
  toMain,           \* browser: the messages posted on the worker's port
  workerDocuments,  \* browser worker: documents, uri -> text
  workerExtractedCodes, \* browser worker: extractedCodes, uri -> codes
  mainExtractedCodes,   \* browser main thread: extractedCodes, uri -> codes
  mainDiagnostics,  \* browser main thread: diagnostics, uri -> diagnostics
  mainPatientInfo,  \* browser main thread: patientInfo, uri -> patient
  sentText,         \* browser main thread: the text sent last, uri -> text
  changes           \* browser main thread: 'document-changed' messages sent

termVars ==
  <<dictionary, terminology>>

findVars ==
  <<text, tpc, allMatches, greedyMatches, cursor, results, calls, previousResults>>

lookupVars ==
  <<query, lookupResult, lpc>>

validateVars ==
  <<code, validation, vpc>>

parserVars ==
  <<content, lines, currentLine, sections, structure, ppc, parses,
    firstContent, firstDocument>>

navVars ==
  <<navOp, navSection, navResult, npc>>

outlineVars ==
  <<outline, opc>>

indexVars ==
  <<typeQuery, typeResult, ipc, navVars, outlineVars>>

legacyVars ==
  <<serverResults, spc, browserResults, bpc>>

diagVars ==
  <<diagnostics, dpc>>

serverVars ==
  <<initialized, hasConfigurationCapability, openDocuments, documentSettings,
    configurationRequests, validations, published, notifications>>

workerVars ==
  <<toWorker, toMain, workerDocuments, workerExtractedCodes, mainExtractedCodes,
    mainDiagnostics, mainPatientInfo, sentText, changes>>

vars ==
  <<termVars, findVars, lookupVars, validateVars, parserVars, indexVars,
    legacyVars, diagVars, serverVars, workerVars>>

(***************************************************************************)
(* Initial states: the instances after construction                        *)
(***************************************************************************)
TerminologyConstructed(dict) ==
  /\ dictionary = dict
  /\ terminology = initializeTerminology(dict)

FindIdle ==
  /\ text = <<>>
  /\ tpc = "idle"
  /\ allMatches = <<>>
  /\ greedyMatches = <<>>
  /\ cursor = 1
  /\ results = <<>>
  /\ calls = 0
  /\ previousResults = <<>>

LookupIdle ==
  /\ query = <<>>
  /\ lookupResult = Undefined
  /\ lpc = "idle"

ValidateIdle ==
  /\ code = <<>>
  /\ validation = [valid |-> FALSE, term |-> Undefined, message |-> "none"]
  /\ vpc = "idle"

ParserIdle ==
  /\ content = <<>>
  /\ lines = <<>>
  /\ currentLine = 0
  /\ sections = <<>>
  /\ structure = EmptyStructure
  /\ ppc = "idle"
  /\ parses = 0
  /\ firstContent = <<>>
  /\ firstDocument = [sections |-> <<>>, structure |-> EmptyStructure]

IndexIdle ==
  /\ typeQuery = "none"
  /\ typeResult = <<>>
  /\ ipc = "idle"
  /\ navOp = "none"
  /\ navSection = 0
  /\ navResult = 0
  /\ npc = "idle"
  /\ outline = <<>>
  /\ opc = "idle"

LegacyIdle ==
  /\ serverResults = <<>>
  /\ spc = "idle"
  /\ browserResults = <<>>
  /\ bpc = "idle"

DiagnosticsIdle ==
  /\ diagnostics = <<>>
  /\ dpc = "idle"

\* the uris of the documents a client opens
Uris ==
  {"a", "b"}

\* server.ts at module load: no capability known, no document, empty cache
ServerIdle ==
  /\ initialized = FALSE
  /\ hasConfigurationCapability = FALSE
  /\ openDocuments = <<>>
  /\ documentSettings = [u \in Uris |-> 0]
  /\ configurationRequests = <<>>
  /\ validations = <<>>
  /\ published = <<>>
  /\ notifications = 0

\* the browser client after initializeLSP: the port is set, nothing posted
\* and the maps of both threads empty
WorkerIdle ==
  /\ toWorker = <<>>
  /\ toMain = <<>>
  /\ workerDocuments = EmptyMap
  /\ workerExtractedCodes = EmptyMap
  /\ mainExtractedCodes = EmptyMap
  /\ mainDiagnostics = EmptyMap
  /\ mainPatientInfo = EmptyMap
  /\ sentText = EmptyMap
  /\ changes = 0

(***************************************************************************)
(* findTermsInText, step by step                                           *)
(***************************************************************************)
\* lines 298-356: collect the candidates of every key, sort them, start with
\* an empty accepted list.  A second call repeats the text of the first.
FindStart ==
  /\ tpc \in {"idle", "returned"}
  /\ calls < MaxCalls
  /\ \E t \in (IF calls = 0 THEN TextsFor(dictionary) ELSE {text}) :
       /\ text' = t
       /\ allMatches' = SortMatches(CollectMatches(SearchTermsOf(terminology), t, 1))
  /\ greedyMatches' = <<>>
  /\ cursor' = 1
  /\ previousResults' = results
  /\ results' = <<>>
  /\ calls' = calls + 1
  /\ tpc' = "scan"
  /\ UNCHANGED <<termVars, lookupVars, validateVars, parserVars, indexVars, legacyVars, diagVars, serverVars, workerVars>>

\* lines 358-400: one iteration of the greedy scan
GreedyScan ==
  /\ tpc = "scan"
  /\ cursor <= Len(allMatches)
  /\ greedyMatches' = GreedyStep(greedyMatches, allMatches[cursor], text)
  /\ cursor' = cursor + 1
  /\ UNCHANGED <<text, tpc, allMatches, results, calls, previousResults>>
  /\ UNCHANGED <<termVars, lookupVars, validateVars, parserVars, indexVars, legacyVars, diagVars, serverVars, workerVars>>

\* lines 402-414: convert to the final format and return
FindReturn ==
  /\ tpc = "scan"
  /\ cursor > Len(allMatches)
  /\ results' = FinalFormat(greedyMatches)
  /\ tpc' = "returned"
  /\ UNCHANGED <<text, allMatches, greedyMatches, cursor, calls, previousResults>>
  /\ UNCHANGED <<termVars, lookupVars, validateVars, parserVars, indexVars, legacyVars, diagVars, serverVars, workerVars>>

Init ==
  /\ \E dict \in Dictionaries : TerminologyConstructed(dict)
  /\ FindIdle
  /\ LookupIdle
  /\ ValidateIdle
  /\ ParserIdle
  /\ IndexIdle
  /\ LegacyIdle
  /\ DiagnosticsIdle
  /\ ServerIdle
  /\ WorkerIdle

Next ==
  \/ FindStart
  \/ GreedyScan
  \/ FindReturn

Spec ==
  Init /\ [][Next]_vars

(***************************************************************************)
(* getTerm                                                                 *)
(***************************************************************************)
GetTerm ==
  /\ lpc = "idle"
  /\ \E q \in QueriesFor(dictionary) :
       /\ query' = q
       /\ lookupResult' = getTerm(terminology, q)
  /\ lpc' = "returned"
  /\ UNCHANGED <<termVars, findVars, validateVars, parserVars, indexVars, legacyVars, diagVars, serverVars, workerVars>>

LookupNext ==
  GetTerm

LookupSpec ==
  Init /\ [][LookupNext]_vars

(***************************************************************************)
(* validateCode, on the shipped terminology                                *)
(***************************************************************************)
ValidateCode ==
  /\ vpc = "idle"
  /\ \E c \in CodeInputs :
       /\ code' = c
       /\ validation' = validateCode(terminology, c)
  /\ vpc' = "returned"
  /\ UNCHANGED <<termVars, findVars, lookupVars, parserVars, indexVars, legacyVars, diagVars, serverVars, workerVars>>

ValidateInit ==
  /\ TerminologyConstructed(ShippedDictionary)
  /\ FindIdle
  /\ LookupIdle
  /\ ValidateIdle
  /\ ParserIdle
  /\ IndexIdle
  /\ LegacyIdle
  /\ DiagnosticsIdle
  /\ ServerIdle
  /\ WorkerIdle

ValidateNext ==
  ValidateCode

ValidateSpec ==
  ValidateInit /\ [][ValidateNext]_vars

(***************************************************************************)
(* YAbelParser.parse, step by step                                         *)
(***************************************************************************)
\* the call without the reset of the line cursor
ParseBeginKeepCursor(oldLines, oldCurrentLine, c) ==
  [lines |-> Split(c, "\n"), currentLine |-> oldCurrentLine]

\* lines 212-213: this.lines = content.split('\n'); this.currentLine = 0
ParseBegin(oldLines, oldCurrentLine, c) ==
  [lines |-> Split(c, "\n"), currentLine |-> 0]

\* the iteration that pushes whatever parseSection returns, null included
ParseIterationKeepNull(ls, cur, secs) ==
  LET r == parseSection(ls, cur)
  IN  IF r.section.type # "null"
        THEN [currentLine |-> r.currentLine, sections |-> Append(secs, r.section)]
        ELSE [currentLine |-> r.currentLine + 1, sections |-> Append(secs, r.section)]

\* lines 236-241: one iteration of the main loop
ParseIteration(ls, cur, secs) ==
  LET r == parseSection(ls, cur)
  IN  IF r.section.type # "null"
        THEN [currentLine |-> r.currentLine, sections |-> Append(secs, r.section)]
        ELSE [currentLine |-> r.currentLine + 1, sections |-> secs]

RECURSIVE ParseLoopFrom(_, _, _)
ParseLoopFrom(ls, cur, secs) ==
  IF cur < Len(ls)
    THEN LET it == ParseIteration(ls, cur, secs)
         IN  ParseLoopFrom(ls, it.currentLine, it.sections)
    ELSE secs

\* the call as a whole on a new parser
parse(c) ==
  LET begun == ParseBegin(<<>>, 0, c)
      secs  == ParseLoopFrom(begun.lines, begun.currentLine, <<>>)
  IN  [sections |-> secs, structure |-> DocumentStructureImpl(secs)]

\* The first call parses any document; later calls parse the first text again
\* or one of the texts in between.
ParseStart ==
  /\ ppc \in {"idle", "returned"}
  /\ parses < MaxParses
  /\ \E c \in (IF parses = 0 THEN Documents ELSE OtherDocuments \cup {firstContent}) :
       /\ content' = c
       /\ lines' = ParseBegin(lines, currentLine, c).lines
       /\ currentLine' = ParseBegin(lines, currentLine, c).currentLine
       /\ firstContent' = IF parses = 0 THEN c ELSE firstContent
  /\ sections' = <<>>
  /\ parses' = parses + 1
  /\ ppc' = "loop"
  /\ UNCHANGED <<structure, firstDocument>>
  /\ UNCHANGED <<termVars, findVars, lookupVars, validateVars, indexVars, legacyVars, diagVars, serverVars, workerVars>>

ParseLoop ==
  /\ ppc = "loop"
  /\ currentLine < Len(lines)
  /\ currentLine' = ParseIteration(lines, currentLine, sections).currentLine
  /\ sections' = ParseIteration(lines, currentLine, sections).sections
  /\ UNCHANGED <<content, lines, structure, ppc, parses, firstContent, firstDocument>>
  /\ UNCHANGED <<termVars, findVars, lookupVars, validateVars, indexVars, legacyVars, diagVars, serverVars, workerVars>>

\* lines 245-251: build the dual structure and return
ParseReturn ==
  /\ ppc = "loop"
  /\ currentLine >= Len(lines)
  /\ structure' = DocumentStructureImpl(sections)
  /\ firstDocument' = IF parses = 1
                        THEN [sections |-> sections,
                              structure |-> DocumentStructureImpl(sections)]
                        ELSE firstDocument
  /\ ppc' = "returned"
  /\ UNCHANGED <<content, lines, currentLine, sections, parses, firstContent>>
  /\ UNCHANGED <<termVars, findVars, lookupVars, validateVars, indexVars, legacyVars, diagVars, serverVars, workerVars>>

ParserInit ==
  /\ TerminologyConstructed(ShippedDictionary)
  /\ FindIdle
  /\ LookupIdle
  /\ ValidateIdle
  /\ ParserIdle
  /\ IndexIdle
  /\ LegacyIdle
  /\ DiagnosticsIdle
  /\ ServerIdle
  /\ WorkerIdle

ParserNext ==
  \/ ParseStart
  \/ ParseLoop
  \/ ParseReturn

ParserSpec ==
  ParserInit /\ [][ParserNext]_vars

(***************************************************************************)
(* The indexed queries on a parsed document                                *)
(***************************************************************************)
\* headings that extractMetadata classifies, one that it does not, a text
\* line and a key: value line
IndexLinePool ==
  { <<"#"," ","m","e","d">>, <<"#","#"," ","a","l","l","e","r","g">>, <<"#"," ","a">>, <<"x">>, <<"k",":","v">> }

IndexDocuments ==
  {Join(ls, "\n") : ls \in StringsUpTo(IndexLinePool, MaxLines)}

\* the section types of extractMetadata and the block types of parseSection
SectionTypes ==
  {"medications", "allergies", "chief-complaint", "hpi", "assessment-plan",
   "patient-info"}

BlockTypes ==
  {"heading", "text", "structured"}

\* parse(content) as one call on a new parser
ParseDocument ==
  /\ ppc = "idle"
  /\ \E c \in IndexDocuments :
       /\ content' = c
       /\ lines' = ParseBegin(lines, currentLine, c).lines
       /\ currentLine' = Len(ParseBegin(lines, currentLine, c).lines)
       /\ sections' = parse(c).sections
       /\ structure' = parse(c).structure
       /\ firstContent' = c
       /\ firstDocument' = parse(c)
  /\ parses' = parses + 1
  /\ ppc' = "returned"
  /\ UNCHANGED <<termVars, findVars, lookupVars, validateVars, indexVars, legacyVars, diagVars, serverVars, workerVars>>

GetSectionsByType ==
  /\ ppc = "returned"
  /\ ipc = "idle"
  /\ \E t \in SectionTypes \cup BlockTypes :
       /\ typeQuery' = t
       /\ typeResult' = getSectionsByType([sections |-> sections,
                                            structure |-> structure], t)
  /\ ipc' = "returned"
  /\ UNCHANGED <<navVars, outlineVars>>
  /\ UNCHANGED <<termVars, findVars, lookupVars, validateVars, parserVars, legacyVars, diagVars, serverVars, workerVars>>

\* structure.getNextSibling(section) on the parsed document, for any of its
\* sections
GetNextSibling ==
  /\ ppc = "returned"
  /\ npc = "idle"
  /\ \E section \in 1..Len(sections) :
       /\ navSection' = section
       /\ navResult' = getNextSibling(structure, section)
  /\ navOp' = "next"
  /\ npc' = "returned"
  /\ UNCHANGED <<typeQuery, typeResult, ipc, outlineVars>>
  /\ UNCHANGED <<termVars, findVars, lookupVars, validateVars, parserVars, legacyVars, diagVars, serverVars, workerVars>>

\* structure.getPreviousSibling(section)
GetPreviousSibling ==
  /\ ppc = "returned"
  /\ npc = "idle"
  /\ \E section \in 1..Len(sections) :
       /\ navSection' = section
       /\ navResult' = getPreviousSibling(structure, section)
  /\ navOp' = "previous"
  /\ npc' = "returned"
  /\ UNCHANGED <<typeQuery, typeResult, ipc, outlineVars>>
  /\ UNCHANGED <<termVars, findVars, lookupVars, validateVars, parserVars, legacyVars, diagVars, serverVars, workerVars>>

\* YAbelParser.getDocumentOutline(document)
GetDocumentOutline ==
  /\ ppc = "returned"
  /\ opc = "idle"
  /\ outline' = getDocumentOutline([sections |-> sections, structure |-> structure])
  /\ opc' = "returned"
  /\ UNCHANGED <<typeQuery, typeResult, ipc, navVars>>
  /\ UNCHANGED <<termVars, findVars, lookupVars, validateVars, parserVars, legacyVars, diagVars, serverVars, workerVars>>

IndexNext ==
  \/ ParseDocument
  \/ GetSectionsByType
  \/ GetNextSibling
  \/ GetPreviousSibling
  \/ GetDocumentOutline

IndexSpec ==
  ParserInit /\ [][IndexNext]_vars

(***************************************************************************)
(* The classification of a heading by its title                            *)
(***************************************************************************)
\* the most words in a generated heading title
MaxTitleWords ==
  2

\* the words of the rules of extractMetadata, words in other letter cases,
\* a word that holds 'med' inside and a word of no rule
TitleWords ==
  { <<"m","e","d","i","c","a","t","i","o","n">>,
    <<"m","e","d">>,
    <<"a","l","l","e","r","g">>,
    <<"c","h","i","e","f">>,
    <<"c","o","m","p","l","a","i","n","t">>,
    <<"h","p","i">>,
    <<"h","i","s","t","o","r","y">>,
    <<"i","l","l","n","e","s","s">>,
    <<"a","s","s","e","s","s","m","e","n","t">>,
    <<"p","l","a","n">>,
    <<"p","a","t","i","e","n","t">>,
    <<"M","E","D">>,
    <<"A","l","l","e","r","g","i","e","s">>,
    <<"I","m","m","e","d","i","a","t","e">>,
    <<"x">> }

HeadingTitles ==
  {Join(ws, " ") : ws \in StringsUpTo(TitleWords, MaxTitleWords) \ {<<>>}}

\* parse(content) of a document that is one heading line with the title
ParseHeading ==
  /\ ppc = "idle"
  /\ \E t \in HeadingTitles :
       LET c == <<"#", "#", " ">> \o t
       IN  /\ content' = c
           /\ lines' = ParseBegin(lines, currentLine, c).lines
           /\ currentLine' = Len(ParseBegin(lines, currentLine, c).lines)
           /\ sections' = parse(c).sections
           /\ structure' = parse(c).structure
           /\ firstContent' = c
           /\ firstDocument' = parse(c)
  /\ parses' = parses + 1
  /\ ppc' = "returned"
  /\ UNCHANGED <<termVars, findVars, lookupVars, validateVars, indexVars, legacyVars, diagVars, serverVars, workerVars>>

ClassifyNext ==
  ParseHeading

ClassifySpec ==
  ParserInit /\ [][ClassifyNext]_vars

(***************************************************************************)
(* The shared findTermsInText next to the two copies it replaced, each     *)
(* called once on the same text                                            *)
(***************************************************************************)
\* the longest generated text given to the three implementations
MaxLocalTextLen ==
  3

LocalTextsFor(dict) ==
  IF dict = ShippedDictionary
    THEN ScenarioTexts
    ELSE StringsUpTo(TextAlphabet, MaxLocalTextLen) \cup ExtraTexts

\* each copy registers its own dictionary in place of the shipped one
ServerDictionaryFor(dict) ==
  IF dict = ShippedDictionary THEN ServerShippedDictionary ELSE dict

BrowserDictionaryFor(dict) ==
  IF dict = ShippedDictionary THEN BrowserShippedDictionary ELSE dict

\* the text of the call: any text for the first implementation called, the
\* same text for the others
CallTexts ==
  IF tpc = "idle" /\ spc = "idle" /\ bpc = "idle"
    THEN LocalTextsFor(dictionary)
    ELSE {text}

\* findTermsInText of the shared package as one call
FindShared ==
  /\ tpc = "idle"
  /\ \E t \in CallTexts :
       /\ text' = t
       /\ allMatches' = SortMatches(CollectMatches(SearchTermsOf(terminology), t, 1))
       /\ greedyMatches' = GreedyFrom(<<>>,
                             SortMatches(CollectMatches(SearchTermsOf(terminology), t, 1)),
                             t, 1)
       /\ cursor' = Len(SortMatches(CollectMatches(SearchTermsOf(terminology), t, 1))) + 1
       /\ results' = findTermsInText(terminology, t)
  /\ previousResults' = results
  /\ calls' = calls + 1
  /\ tpc' = "returned"
  /\ UNCHANGED <<termVars, lookupVars, validateVars, parserVars, indexVars, legacyVars, diagVars, serverVars, workerVars>>

FindServerLocal ==
  /\ spc = "idle"
  /\ \E t \in CallTexts :
       /\ text' = t
       /\ serverResults' =
            ServerFindTermsInText(LocalTerminology(ServerDictionaryFor(dictionary)), t)
  /\ spc' = "returned"
  /\ UNCHANGED <<tpc, allMatches, greedyMatches, cursor, results, calls, previousResults>>
  /\ UNCHANGED <<browserResults, bpc>>
  /\ UNCHANGED <<termVars, lookupVars, validateVars, parserVars, indexVars, diagVars, serverVars, workerVars>>

FindBrowserLocal ==
  /\ bpc = "idle"
  /\ \E t \in CallTexts :
       /\ text' = t
       /\ browserResults' =
            BrowserFindTermsInText(LocalTerminology(BrowserDictionaryFor(dictionary)), t)
  /\ bpc' = "returned"
  /\ UNCHANGED <<tpc, allMatches, greedyMatches, cursor, results, calls, previousResults>>
  /\ UNCHANGED <<serverResults, spc>>
  /\ UNCHANGED <<termVars, lookupVars, validateVars, parserVars, indexVars, diagVars, serverVars, workerVars>>

RefactorNext ==
  \/ FindShared
  \/ FindServerLocal
  \/ FindBrowserLocal

RefactorSpec ==
  Init /\ [][RefactorNext]_vars

(***************************************************************************)
(* DiagnosticsProvider.validateDocument on the shared terminology.  Of the *)
(* diagnostics it collects, those of checkAllergyConflicts are recorded;   *)
(* the other validators emit diagnostics with other codes.                 *)
(***************************************************************************)
\* the most lines of a generated document of validateDocument
MaxDiagnosticLines ==
  3

DiagnosticLinePool ==
  { <<"#","#"," ","A","l","l","e","r","g","i","e","s">>, <<"#","#"," ","M","e","d","i","c","a","t","i","o","n","s">>, <<"p","e","n","i","c","i","l","l","i","n">>, <<"a","m","o","x","i","c","i","l","l","i","n">>, <<"s","u","l","f","a"," ","a","l","l","e","r","g","y">> }

\* the documents of the allergy scenario, with both sections filled
AllergyScenarioDocuments ==
  { Join(<<<<"#","#"," ","A","l","l","e","r","g","i","e","s">>, a, <<"#","#"," ","M","e","d","i","c","a","t","i","o","n","s">>, m>>, "\n") :
      a \in {<<"p","e","n","i","c","i","l","l","i","n">>, <<"s","u","l","f","a"," ","a","l","l","e","r","g","y">>}, m \in {<<"a","m","o","x","i","c","i","l","l","i","n">>, <<"p","e","n","i","c","i","l","l","i","n">>, <<"s","u","l","f","o","n","a","m","i","d","e","s">>} }

DiagnosticDocuments ==
  {Join(ls, "\n") : ls \in StringsUpTo(DiagnosticLinePool, MaxDiagnosticLines)}
    \cup AllergyScenarioDocuments

ValidateDocument ==
  /\ dpc = "idle"
  /\ \E c \in DiagnosticDocuments :
       /\ content' = c
       /\ lines' = ParseBegin(lines, currentLine, c).lines
       /\ currentLine' = Len(ParseBegin(lines, currentLine, c).lines)
       /\ sections' = parse(c).sections
       /\ structure' = parse(c).structure
       /\ firstContent' = c
       /\ firstDocument' = parse(c)
       /\ diagnostics' = checkAllergyConflicts(terminology, parse(c), c)
  /\ parses' = parses + 1
  /\ ppc' = "returned"
  /\ dpc' = "returned"
  /\ UNCHANGED <<termVars, findVars, lookupVars, validateVars, indexVars, legacyVars, serverVars, workerVars>>

DiagnosticsNext ==
  ValidateDocument

DiagnosticsSpec ==
  ParserInit /\ [][DiagnosticsNext]_vars

(***************************************************************************)
(* The LSP server: validateTextDocument awaits the settings of the         *)
(* document.  A settings promise is named by its index in                  *)
(* configurationRequests; a validation that awaits an unresolved promise   *)
(* waits in validations and continues when the client answers.             *)
(***************************************************************************)
\* client notifications handled by one server
MaxNotifications ==
  3

\* the answers of the client to workspace/configuration: settings with
\* enableDiagnostics true or false, or null for an unconfigured section
ConfigurationAnswers ==
  {"enabled", "disabled", "null"}

ServerState ==
  [documentSettings |-> documentSettings,
   configurationRequests |-> configurationRequests,
   validations |-> validations,
   published |-> published]

\* connection.sendDiagnostics({ uri, diagnostics }), recorded with whether
\* the document is open at that moment
sendDiagnostics(s, uri, open) ==
  [s EXCEPT !.published =
     Append(@, [uri |-> uri, open |-> \E k \in 1..Len(open) : open[k] = uri])]

\* validateTextDocument after `await getDocumentSettings`: null settings
\* throw at settings.enableDiagnostics, disabled settings return
ContinueValidation(s, uri, settings, open) ==
  IF settings = "enabled" THEN sendDiagnostics(s, uri, open) ELSE s

\* getDocumentSettings(resource) with the configuration capability: the
\* cached promise, or a new request that is cached
getDocumentSettings(s, resource) ==
  IF s.documentSettings[resource] # 0
    THEN s
    ELSE [s EXCEPT
            !.configurationRequests =
              Append(@, [uri |-> resource, state |-> "pending", settings |-> "none"]),
            !.documentSettings[resource] = Len(s.configurationRequests) + 1]

\* validateTextDocument(textDocument) up to its first await, and beyond it
\* when the promise is resolved already
validateTextDocument(s, uri, capability, open) ==
  IF ~capability
    THEN ContinueValidation(s, uri, "enabled", open)
    ELSE LET s1 == getDocumentSettings(s, uri)
             p  == s1.documentSettings[uri]
         IN  IF s1.configurationRequests[p].state = "resolved"
               THEN ContinueValidation(s1, uri, s1.configurationRequests[p].settings, open)
               ELSE [s1 EXCEPT !.validations = Append(@, [uri |-> uri, promise |-> p])]

RECURSIVE ValidateAll(_, _, _, _)
\* documents.all().forEach(validateTextDocument)
ValidateAll(s, capability, open, i) ==
  IF i > Len(open)
    THEN s
    ELSE ValidateAll(validateTextDocument(s, open[i], capability, open),
                     capability, open, i + 1)

RECURSIVE ContinueAwaiting(_, _, _, _, _)
\* the continuations of the validations that await promise p, in order
ContinueAwaiting(s, waiting, p, settings, open) ==
  IF waiting = <<>>
    THEN s
    ELSE IF Head(waiting).promise = p
      THEN ContinueAwaiting(ContinueValidation(s, Head(waiting).uri, settings, open),
                            Tail(waiting), p, settings, open)
      ELSE ContinueAwaiting([s EXCEPT !.validations = Append(@, Head(waiting))],
                            Tail(waiting), p, settings, open)

SetServerState(s) ==
  /\ documentSettings' = s.documentSettings
  /\ configurationRequests' = s.configurationRequests
  /\ validations' = s.validations
  /\ published' = s.published

OthersUnchangedByServer ==
  UNCHANGED <<termVars, findVars, lookupVars, validateVars, parserVars, indexVars,
              legacyVars, diagVars, workerVars>>

\* connection.onInitialize
Initialize ==
  /\ ~initialized
  /\ initialized' = TRUE
  /\ hasConfigurationCapability' \in BOOLEAN
  /\ UNCHANGED <<openDocuments, documentSettings, configurationRequests,
                 validations, published, notifications>>
  /\ OthersUnchangedByServer

\* textDocument/didOpen: the document manager adds the document and emits
\* onDidChangeContent
DidOpen ==
  /\ initialized
  /\ notifications < MaxNotifications
  /\ \E uri \in Uris :
       /\ \A k \in 1..Len(openDocuments) : openDocuments[k] # uri
       /\ openDocuments' = Append(openDocuments, uri)
       /\ SetServerState(validateTextDocument(ServerState, uri,
                           hasConfigurationCapability, Append(openDocuments, uri)))
  /\ notifications' = notifications + 1
  /\ UNCHANGED <<initialized, hasConfigurationCapability>>
  /\ OthersUnchangedByServer

\* documents.onDidChangeContent for an open document
DidChangeContent ==
  /\ initialized
  /\ notifications < MaxNotifications
  /\ \E k \in 1..Len(openDocuments) :
       SetServerState(validateTextDocument(ServerState, openDocuments[k],
                        hasConfigurationCapability, openDocuments))
  /\ notifications' = notifications + 1
  /\ UNCHANGED <<initialized, hasConfigurationCapability, openDocuments>>
  /\ OthersUnchangedByServer

\* connection.onDidChangeConfiguration
DidChangeConfiguration ==
  /\ initialized
  /\ notifications < MaxNotifications
  /\ SetServerState(
       ValidateAll(IF hasConfigurationCapability
                     THEN [ServerState EXCEPT !.documentSettings = [u \in Uris |-> 0]]
                     ELSE ServerState,
                   hasConfigurationCapability, openDocuments, 1))
  /\ notifications' = notifications + 1
  /\ UNCHANGED <<initialized, hasConfigurationCapability, openDocuments>>
  /\ OthersUnchangedByServer

\* documents.onDidClose
DidClose ==
  /\ initialized
  /\ notifications < MaxNotifications
  /\ \E k \in 1..Len(openDocuments) :
       /\ documentSettings' = [documentSettings EXCEPT ![openDocuments[k]] = 0]
       /\ openDocuments' = SubSeq(openDocuments, 1, k - 1)
                             \o SubSeq(openDocuments, k + 1, Len(openDocuments))
  /\ notifications' = notifications + 1
  /\ UNCHANGED <<initialized, hasConfigurationCapability, configurationRequests,
                 validations, published>>
  /\ OthersUnchangedByServer

\* the client answers a workspace/configuration request: the promise
\* resolves and the validations awaiting it continue
ConfigurationResponse ==
  /\ \E p \in 1..Len(configurationRequests) : \E answer \in ConfigurationAnswers :
       /\ configurationRequests[p].state = "pending"
       /\ SetServerState(
            ContinueAwaiting(
              [ServerState EXCEPT
                 !.configurationRequests[p] = [@ EXCEPT !.state = "resolved",
                                                        !.settings = answer],
                 !.validations = <<>>],
              validations, p, answer, openDocuments))
  /\ UNCHANGED <<initialized, hasConfigurationCapability, openDocuments, notifications>>
  /\ OthersUnchangedByServer

ServerNext ==
  \/ Initialize
  \/ DidOpen
  \/ DidChangeContent
  \/ DidChangeConfiguration
  \/ DidClose
  \/ ConfigurationResponse

ServerSpec ==
  ParserInit /\ [][ServerNext]_vars

(***************************************************************************)
(* The browser client: the main thread posts 'document-changed' messages   *)
(* on its port, the worker answers each with a 'metadata-update'.  A port  *)
(* delivers its messages in the order they were posted.                    *)
(***************************************************************************)
\* 'document-changed' messages sent by the main thread
MaxChanges ==
  2

\* the texts of the editor: a term on the first line, terms on two lines, and
\* a penicillin allergy with amoxicillin prescribed
WorkerTexts ==
  { <<"h","t","n">>,
    <<"c","h","f","\n","h","t","n">>,
    <<"#"," ","a","l","l","e","r","g","\n","p","c","n","\n","#"," ","m","e","d","\n","a","m","o","x","i","c","i","l","l","i","n">> }

\* new MedicalTerminology() of the browser client
WorkerTerminology ==
  LocalTerminology(BrowserShippedDictionary)

RECURSIVE LineOfOffset(_, _, _, _)
\* the loop over the lines: the first line i with currentPos + length >=
\* start, and currentPos at that line; line 0 when the loop ends without one
LineOfOffset(textLines, i, currentPos, start) ==
  IF i >= Len(textLines)
    THEN [lineNumber |-> 0, currentPos |-> currentPos]
    ELSE IF currentPos + Len(textLines[i + 1]) >= start
      THEN [lineNumber |-> i, currentPos |-> currentPos]
      ELSE LineOfOffset(textLines, i + 1, currentPos + Len(textLines[i + 1]) + 1, start)

\* matches.map(match => ({ term, code, range }))
CodesOfMatches(matches, textLines) ==
  [k \in 1..Len(matches) |->
     LET at == LineOfOffset(textLines, 0, 0, matches[k].start)
     IN  [term |-> matches[k].term.term,
          code |-> IF Len(matches[k].term.codes) > 0
                     THEN matches[k].term.codes[1]
                     ELSE <<>>,
          range |-> [start |-> [line |-> at.lineNumber,
                                character |-> matches[k].start - at.currentPos],
                     end   |-> [line |-> at.lineNumber,
                                character |-> matches[k].end - at.currentPos],
                     startLineNumber |-> at.lineNumber + 1,
                     endLineNumber |-> at.lineNumber + 1]]]

RECURSIVE WorkerConflictsFrom(_, _)
\* medicationTerms.forEach: a warning for amoxicillin or ampicillin
WorkerConflictsFrom(medicationTerms, i) ==
  IF i > Len(medicationTerms)
    THEN <<>>
    ELSE LET medMatch == medicationTerms[i]
             medName  == ToLowerCase(medMatch.term.term)
         IN  (IF \/ StringIncludes(medName, <<"a","m","o","x","i","c","i","l","l","i","n">>)
                 \/ StringIncludes(medName, <<"a","m","p","i","c","i","l","l","i","n">>)
                THEN <<[severity |-> 2, code |-> "ALLERGY_CONFLICT",
                        source |-> "yAbelFish", match |-> medMatch.match,
                        range |-> [start |-> [line |-> 0, character |-> medMatch.start],
                                   end   |-> [line |-> 0, character |-> medMatch.end]]]>>
                ELSE <<>>)
               \o WorkerConflictsFrom(medicationTerms, i + 1)

\* validateDocument(uri, text, parsedDoc) of the worker
WorkerValidateDocument(uri, documentText, parsedDoc) ==
  LET allergySection    == getSectionByType(parsedDoc, "allergies")
      medicationSection == getSectionByType(parsedDoc, "medications")
  IN  IF allergySection # 0 /\ medicationSection # 0
        THEN LET termsOf == [s \in {allergySection, medicationSection} |->
                               BrowserFindTermsInText(WorkerTerminology,
                                                      parsedDoc.sections[s].content)]
                 allergyTerms    == termsOf[allergySection]
                 medicationTerms == termsOf[medicationSection]
                 hasPenicillinAllergy ==
                   \E k \in 1..Len(allergyTerms) :
                     StringIncludes(ToLowerCase(allergyTerms[k].term.term),
                                    <<"p","e","n","i","c","i","l","l","i","n">>)
             IN  IF hasPenicillinAllergy
                   THEN WorkerConflictsFrom(medicationTerms, 1)
                   ELSE <<>>
        ELSE <<>>

\* extractPatientInfo(text), by whether /##\s+Patient\s*\n/ is found: the
\* patient object, or null
extractPatientInfo(documentText) ==
  IF \E i \in 1..Len(documentText) : \E j \in (i + 3)..Len(documentText) : \E k \in (j + 7)..Len(documentText) :
       /\ SubSeq(documentText, i, i + 1) = <<"#","#">>
       /\ \A w \in (i + 2)..(j - 1) : IsWhitespace(documentText[w])
       /\ SubSeq(documentText, j, j + 6) = <<"P","a","t","i","e","n","t">>
       /\ \A w \in (j + 7)..k : IsWhitespace(documentText[w])
       /\ documentText[k] = "\n"
    THEN "patient"
    ELSE "null"

\* the message posted by handleDocumentChange(uri, text)
MetadataUpdate(uri, documentText) ==
  LET parsedDoc == parse(documentText)
      matches   == BrowserFindTermsInText(WorkerTerminology, documentText)
  IN  [type |-> "metadata-update",
       uri |-> uri,
       codes |-> CodesOfMatches(matches, Split(documentText, "\n")),
       diagnostics |-> WorkerValidateDocument(uri, documentText, parsedDoc),
       patient |-> extractPatientInfo(documentText)]

\* the maps of the main thread
MainStore ==
  [extractedCodes |-> mainExtractedCodes, diagnostics |-> mainDiagnostics,
   patientInfo |-> mainPatientInfo]

\* the update stored only for a uri that has no entry yet
handleMetadataUpdateKeepFirst(store, update) ==
  IF MapHas(store.extractedCodes, update.uri)
    THEN store
    ELSE [extractedCodes |-> MapSet(store.extractedCodes, update.uri, update.codes),
          diagnostics |-> MapSet(store.diagnostics, update.uri, update.diagnostics),
          patientInfo |-> store.patientInfo]

\* handleMetadataUpdate(update): the maps after the update
handleMetadataUpdate(store, update) ==
  [extractedCodes |-> MapSet(store.extractedCodes, update.uri, update.codes),
   diagnostics |-> MapSet(store.diagnostics, update.uri, update.diagnostics),
   patientInfo |-> IF update.patient # "null"
                     THEN MapSet(store.patientInfo, update.uri, update.patient)
                     ELSE store.patientInfo]

OthersUnchangedByBrowser ==
  UNCHANGED <<termVars, findVars, lookupVars, validateVars, parserVars, indexVars,
              legacyVars, diagVars, serverVars>>

\* model.onDidChangeContent -> sendDocumentChange(uri, model.getValue())
SendDocumentChange ==
  /\ changes < MaxChanges
  /\ \E uri \in Uris : \E t \in WorkerTexts :
       /\ toWorker' = Append(toWorker, [type |-> "document-changed", uri |-> uri, text |-> t])
       /\ sentText' = MapSet(sentText, uri, t)
  /\ changes' = changes + 1
  /\ UNCHANGED <<toMain, workerDocuments, workerExtractedCodes, mainExtractedCodes,
                 mainDiagnostics, mainPatientInfo>>
  /\ OthersUnchangedByBrowser

\* the worker's port.onmessage -> handleMessage -> handleDocumentChange
HandleDocumentChange ==
  /\ toWorker # <<>>
  /\ toWorker' = Tail(toWorker)
  /\ workerDocuments' = MapSet(workerDocuments, Head(toWorker).uri, Head(toWorker).text)
  /\ LET update == MetadataUpdate(Head(toWorker).uri, Head(toWorker).text)
     IN  /\ workerExtractedCodes' = MapSet(workerExtractedCodes, update.uri, update.codes)
         /\ toMain' = Append(toMain, update)
  /\ UNCHANGED <<mainExtractedCodes, mainDiagnostics, mainPatientInfo, sentText, changes>>
  /\ OthersUnchangedByBrowser

\* the main thread's port.onmessage -> handleWorkerMessage -> handleMetadataUpdate
HandleWorkerMessage ==
  /\ toMain # <<>>
  /\ toMain' = Tail(toMain)
  /\ LET store == handleMetadataUpdate(MainStore, Head(toMain))
     IN  /\ mainExtractedCodes' = store.extractedCodes
         /\ mainDiagnostics' = store.diagnostics
         /\ mainPatientInfo' = store.patientInfo
  /\ UNCHANGED <<toWorker, workerDocuments, workerExtractedCodes, sentText, changes>>
  /\ OthersUnchangedByBrowser

BrowserNext ==
  \/ SendDocumentChange
  \/ HandleDocumentChange
  \/ HandleWorkerMessage

\* the event loop of a thread takes a message that waits on its port
WorkerReceives ==
  toWorker # <<>> /\ toWorker' = Tail(toWorker)

MainReceives ==
  toMain # <<>> /\ toMain' = Tail(toMain)

BrowserSpec ==
  /\ ParserInit
  /\ [][BrowserNext]_vars
  /\ WF_toWorker(WorkerReceives)
  /\ WF_toMain(MainReceives)

(***************************************************************************)
(* Properties of findTermsInText                                           *)
(***************************************************************************)
\* C1: no two annotations returned by findTermsInText overlap: for any two
\* distinct results A and B, A.end <= B.start or B.end <= A.start.
NonOverlap ==
  tpc = "returned" =>
    \A i, j \in 1..Len(results) :
      i # j => \/ results[i].end <= results[j].start
               \/ results[j].end <= results[i].start

\* a call has returned two annotations and dropped a candidate that overlaps
\* one of them
NonOverlapWitness ==
  /\ tpc = "returned"
  /\ Len(results) >= 2
  /\ \E k \in 1..Len(allMatches) : \E i \in 1..Len(results) :
       /\ allMatches[k].start < results[i].end
       /\ allMatches[k].end > results[i].start
       /\ \A j \in 1..Len(results) : results[j].start # allMatches[k].start

CongestiveHeartFailure ==
  <<"c","o","n","g","e","s","t","i","v","e"," ","h","e","a","r","t"," ",
    "f","a","i","l","u","r","e">>

ChfIsAliasOfCongestiveHeartFailure(dict) ==
  \E i \in 1..Len(dict) :
    /\ ToLowerCase(dict[i].term) = CongestiveHeartFailure
    /\ Includes(dict[i].aliases, <<"c","h","f">>)

\* C2: for the text "CHF - Congestive heart failure" and a dictionary in
\* which "chf" is an alias of the term "congestive heart failure",
\* findTermsInText returns exactly one annotation.
ChfContextualSuppression ==
  (/\ tpc = "returned"
   /\ text = ChfText
   /\ ChfIsAliasOfCongestiveHeartFailure(dictionary))
    => Len(results) = 1

\* the registration orders compared: every order of a short dictionary, the
\* reversed and the rotated order of a long one
MaxPermuted ==
  3

Reorderings(dict) ==
  LET n == Len(dict)
  IN  IF n <= MaxPermuted
        THEN {p \in [1..n -> 1..n] : \A i, j \in 1..n : p[i] = p[j] => i = j}
        ELSE {[i \in 1..n |-> n + 1 - i], [i \in 1..n |-> (i % n) + 1]}

Reordered(dict, p) ==
  [i \in 1..Len(dict) |-> dict[p[i]]]

AliasKeys(entry) ==
  {ToLowerCase(entry.aliases[k]) : k \in 1..Len(entry.aliases)}

\* no canonical term and no alias is registered by two entries
UniqueKeys(dict) ==
  \A i, j \in 1..Len(dict) :
    i # j => /\ ToLowerCase(dict[i].term) # ToLowerCase(dict[j].term)
             /\ AliasKeys(dict[i]) \cap AliasKeys(dict[j]) = {}

SameUnderEveryOrder ==
  \A p \in Reorderings(dictionary) :
    findTermsInText(initializeTerminology(Reordered(dictionary, p)), text) = results

SameAsPreviousCall ==
  calls >= 2 => results = previousResults

\* C3, as stated: every call on the same text returns the same annotation
\* sequence, and the sequence does not depend on the order in which the
\* entries of the dictionary were registered.
Deterministic ==
  tpc = "returned" => SameAsPreviousCall /\ SameUnderEveryOrder

\* C3, amended: every call on the same text returns the same annotation
\* sequence, and for a dictionary in which no canonical term and no alias is
\* registered by two entries the sequence does not depend on the order of
\* registration.
DeterministicForUniqueKeys ==
  tpc = "returned" =>
    /\ SameAsPreviousCall
    /\ UniqueKeys(dictionary) => SameUnderEveryOrder

\* the second call on a text has returned two annotations of a dictionary of
\* several entries with unique keys, among candidates that share a start
DeterministicWitness ==
  /\ tpc = "returned"
  /\ calls = 2
  /\ Len(dictionary) >= 2
  /\ UniqueKeys(dictionary)
  /\ Len(results) >= 2
  /\ \E k, l \in 1..Len(allMatches) :
       k # l /\ allMatches[k].start = allMatches[l].start

\* C4: whenever one of two candidates with the same start offset is in the
\* annotation set, it is the longer of the two.
LongestAtSameStart ==
  tpc = "returned" =>
    \A i \in 1..Len(results) : \A k \in 1..Len(allMatches) :
      allMatches[k].start = results[i].start
        => Len(allMatches[k].match) <= Len(results[i].match)

\* C5: the annotation sequence returned by findTermsInText is ordered by
\* ascending start offset.
OrderedByStart ==
  tpc = "returned" =>
    \A i, j \in 1..Len(results) : i < j => results[i].start <= results[j].start

\* a call has returned several annotations whose candidates were collected
\* in another order than the sorted one
OrderedByStartWitness ==
  /\ tpc = "returned"
  /\ Len(results) >= 2
  /\ CollectMatches(SearchTermsOf(terminology), text, 1) # allMatches

\* C10: every candidate span is neither immediately preceded nor immediately
\* followed in the text by a word character, and its text is a key of the
\* dictionary up to letter case.
CandidatesWordBounded ==
  tpc \in {"scan", "returned"} =>
    \A k \in 1..Len(allMatches) :
      LET c == allMatches[k]
      IN  /\ c.start > 0 => ~IsWordChar(text[c.start])
          /\ c.end < Len(text) => ~IsWordChar(text[c.end + 1])
          /\ ToLowerCase(c.match) \in MapKeys(terminology.terms)
                                        \cup MapKeys(terminology.aliasIndex)

(***************************************************************************)
(* Properties of the parser                                                *)
(***************************************************************************)
\* C6: in the hierarchy every node's depth equals its heading level, every
\* child's depth is strictly greater than its parent's depth, and every root
\* node has no parent.
HierarchyDepth ==
  ppc = "returned" =>
    LET h == structure.hierarchical
    IN  /\ \A n \in 1..Len(h.nodes) :
             /\ h.nodes[n].depth = structure.linear[h.nodes[n].section].level
             /\ h.nodes[n].parent # 0
                  => h.nodes[n].depth > h.nodes[h.nodes[n].parent].depth
             /\ \A k \in 1..Len(h.nodes[n].children) :
                  /\ h.nodes[h.nodes[n].children[k]].parent = n
                  /\ h.nodes[h.nodes[n].children[k]].depth > h.nodes[n].depth
        /\ \A r \in 1..Len(h.root) : h.nodes[h.root[r]].parent = 0

\* a returned hierarchy with a nested heading and a heading that closed
\* the nesting
HierarchyDepthWitness ==
  /\ ppc = "returned"
  /\ Len(structure.hierarchical.root) >= 2
  /\ \E n \in 1..Len(structure.hierarchical.nodes) :
       structure.hierarchical.nodes[n].parent # 0

\* C7: a parse returns the flat list and hierarchy of a new parser on the
\* same text, and parsing the text of the first call again, also after other
\* texts, returns a flat list and a hierarchy equal to those of the first
\* call.
ReparseEqual ==
  ppc = "returned" =>
    /\ [sections |-> sections, structure |-> structure] = parse(content)
    /\ content = firstContent
         => /\ sections = firstDocument.sections
            /\ structure = firstDocument.structure

\* the third parse on the instance has returned, for the text of the first,
\* with several sections
ReparseEqualWitness ==
  /\ ppc = "returned"
  /\ parses = 3
  /\ content = firstContent
  /\ Len(sections) >= 2
  /\ Len(structure.hierarchical.nodes) >= 1

(***************************************************************************)
(* Properties of validateCode and getTerm                                  *)
(***************************************************************************)
CodesOf(term) ==
  {term.codes[i] : i \in 1..Len(term.codes)}

RegisteredCodes ==
  UNION {CodesOf(dictionary[i]) : i \in 1..Len(dictionary)}

\* an uppercase letter, two digits and, when suffixes is not empty, optionally
\* a dot and a number of digits in suffixes
Icd10Shaped(c, suffixes) ==
  /\ Len(c) >= 3
  /\ c[1] \in UpperChars
  /\ c[2] \in DigitChars /\ c[3] \in DigitChars
  /\ \/ Len(c) = 3
     \/ /\ Len(c) - 4 \in suffixes
        /\ c[4] = "."
        /\ \A i \in 5..Len(c) : c[i] \in DigitChars

AllDigits(c) ==
  c # <<>> /\ \A i \in 1..Len(c) : c[i] \in DigitChars

ReasonByShape(c, suffixes) ==
  IF Icd10Shaped(c, suffixes)
    THEN "ICD-10 code not found in terminology database"
    ELSE IF AllDigits(c)
      THEN "RxNorm code not found in terminology database"
      ELSE "Invalid code format"

ValidationIs(suffixes) ==
  vpc = "returned" =>
    IF code \in RegisteredCodes
      THEN /\ validation.valid
           /\ validation.term \in {dictionary[i] : i \in 1..Len(dictionary)}
           /\ code \in CodesOf(validation.term)
      ELSE /\ ~validation.valid
           /\ validation.message = ReasonByShape(code, suffixes)

RECURSIVE CollapseWhitespace(_)
CollapseWhitespace(s) ==
  IF s = <<>>
    THEN <<>>
    ELSE IF IsWhitespace(Head(s))
      THEN <<" ">> \o CollapseWhitespace(TrimStart(s))
      ELSE <<Head(s)>> \o CollapseWhitespace(Tail(s))

\* lowercased, punctuation replaced by whitespace, whitespace runs collapsed,
\* trimmed
Normalized(s) ==
  Trim(CollapseWhitespace(
    [i \in 1..Len(s) |->
       IF IsWordChar(s[i]) \/ IsWhitespace(s[i]) THEN ToLowerChar(s[i]) ELSE " "]))

\* the form under which a string is compared: normalized or only lowercased
Form(s, normalizing) ==
  IF normalizing THEN Normalized(s) ELSE ToLowerCase(s)

\* the entries whose canonical term, or one of whose aliases, has the form
\* of the query
CanonicalHits(normalizing) ==
  {i \in 1..Len(dictionary) :
     Form(dictionary[i].term, normalizing) = Form(query, normalizing)}

AliasHits(normalizing) ==
  {i \in 1..Len(dictionary) :
     \E k \in 1..Len(dictionary[i].aliases) :
       Form(dictionary[i].aliases[k], normalizing) = Form(query, normalizing)}

Latest(hits) ==
  CHOOSE i \in hits : \A j \in hits : j <= i

BlocksClassified(secs, t) ==
  LET classified == {i \in 1..Len(secs) : secs[i].metadata.sectionType = t}
  IN  [k \in 1..Cardinality(classified) |->
         CHOOSE i \in classified : Cardinality({j \in classified : j <= i}) = k]

\* C11: sectionsByType maps each sectionType to the blocks whose metadata
\* sectionType is that type, in flat-list order, and getSectionsByType(doc, t)
\* returns that list.
SectionsByTypeIsByMetadata ==
  (ipc = "returned" /\ typeQuery \in SectionTypes) =>
    /\ typeResult = BlocksClassified(sections, typeQuery)
    /\ \A i \in 1..Len(sections) :
         sections[i].metadata.sectionType = typeQuery
           => /\ MapHas(structure.sectionsByType, typeQuery)
              /\ Includes(MapGet(structure.sectionsByType, typeQuery), i)

\* C12: parse("") returns an empty flat list and an empty hierarchy.
EmptyDocumentIsEmpty ==
  (ppc = "returned" /\ content = <<>>) =>
    /\ sections = <<>>
    /\ structure.linear = <<>>
    /\ structure.hierarchical = [nodes |-> <<>>, root |-> <<>>]

\* parse("") has returned after its loop skipped the one empty line
EmptyDocumentWitness ==
  /\ ppc = "returned"
  /\ content = <<>>
  /\ lines = <<<<>>>>
  /\ currentLine = 1

(***************************************************************************)
(* Properties of the move to the shared package                            *)
(***************************************************************************)
\* the occurrences reported: (canonical term, start, end)
Occurrences(rs) ==
  {[term |-> rs[i].term.term, start |-> rs[i].start, end |-> rs[i].end] :
     i \in 1..Len(rs)}

\* C13: for every text the shared findTermsInText reports the same term
\* occurrences (term, start, end) as the findTermsInText of the LSP server's
\* copy and of the browser client's copy.
SameOccurrencesAsLocalCopies ==
  /\ (tpc = "returned" /\ spc = "returned")
       => Occurrences(results) = Occurrences(serverResults)
  /\ (tpc = "returned" /\ bpc = "returned")
       => Occurrences(results) = Occurrences(browserResults)

(***************************************************************************)
(* Properties of the allergy scenario                                      *)
(***************************************************************************)
Penicillin ==
  <<"p","e","n","i","c","i","l","l","i","n">>

Amoxicillin ==
  <<"a","m","o","x","i","c","i","l","l","i","n">>

\* the document of the scenario: an Allergies heading with the content
\* "PENICILLINS" and a Medications heading with the content
\* "amoxicillin 500 mg"
PenicillinsDocument ==
  Join(<<<<"#","#"," ","A","l","l","e","r","g","i","e","s">>, PenicillinsText, <<"#","#"," ","M","e","d","i","c","a","t","i","o","n","s">>, AmoxicillinText>>, "\n")

\* the content of the first block classified with a section type
ContentOfType(c, sectionType) ==
  LET document == [sections |-> parse(c).sections, structure |-> parse(c).structure]
      found    == getSectionByType(document, sectionType)
  IN  IF found = 0 THEN <<>> ELSE document.sections[found].content

\* the term is the penicillin entry: by its name or by an alias
IsPenicillinTerm(term) ==
  \/ ToLowerCase(term.term) = Penicillin
  \/ \E k \in 1..Len(term.aliases) : ToLowerCase(term.aliases[k]) = Penicillin

\* C14: recognizeTerms of the shared package on the content of the Allergies
\* section, "PENICILLINS", yields an annotation of the penicillin term, and on
\* the content of the Medications section, "amoxicillin 500 mg", an
\* annotation of amoxicillin.
ScenarioTermsRecognized ==
  (tpc = "returned" /\ dictionary = ShippedDictionary) =>
    /\ text = ContentOfType(PenicillinsDocument, "allergies")
         => \E i \in 1..Len(results) : IsPenicillinTerm(results[i].term)
    /\ text = ContentOfType(PenicillinsDocument, "medications")
         => \E i \in 1..Len(results) :
              StringIncludes(ToLowerCase(results[i].term.term), Amoxicillin)

\* C15: when the Allergies section contains "penicillin" and the Medications
\* section contains "amoxicillin", validateDocument returns a Warning
\* diagnostic with the code ALLERGY_CONFLICT.
AllergyConflictReported ==
  ( /\ dpc = "returned"
    /\ StringIncludes(ToLowerCase(ContentOfType(content, "allergies")), Penicillin)
    /\ StringIncludes(ToLowerCase(ContentOfType(content, "medications")), Amoxicillin) )
  => \E i \in 1..Len(diagnostics) :
       /\ diagnostics[i].severity = "Warning"
       /\ diagnostics[i].code = "ALLERGY_CONFLICT"

(***************************************************************************)
(* Properties of the greedy scan                                           *)
(***************************************************************************)
\* C.start < A.end and C.end > A.start
OverlapsDirectly(C, A) ==
  C.start < A.end /\ C.end > A.start

\* |C.start - A.end| <= 10 and the text strictly between the two consists of
\* whitespace and the characters - en dash em dash , ; : .
GapIsPunctuation(C, A) ==
  LET from == IF A.end <= C.start THEN A.end ELSE C.start
      to   == IF A.end <= C.start THEN C.start ELSE A.end
  IN  /\ to - from <= 10
      /\ \A p \in (from + 1)..to :
           IsWhitespace(text[p]) \/ text[p] \in {"-", "U+2013", "U+2014", ",", ";", ":", "."}

\* one term's alias list contains the other term's canonical name, or the
\* two canonical names are equal in the form compared
TermsAliasEquivalent(C, A, normalizing) ==
  \/ \E k \in 1..Len(C.term.aliases) : C.term.aliases[k] = ToLowerCase(A.term.term)
  \/ \E k \in 1..Len(A.term.aliases) : A.term.aliases[k] = ToLowerCase(C.term.term)
  \/ Form(C.term.term, normalizing) = Form(A.term.term, normalizing)

ConflictOfClaim(C, A, normalizing) ==
  \/ OverlapsDirectly(C, A)
  \/ GapIsPunctuation(C, A) /\ TermsAliasEquivalent(C, A, normalizing)

\* in a step of the scan the candidate examined is appended exactly when it
\* conflicts with no accepted annotation, and the list is left alone otherwise
AcceptedIffNoConflict(normalizing) ==
  (tpc = "scan" /\ cursor' = cursor + 1) =>
    LET C        == allMatches[cursor]
        conflict == \E i \in 1..Len(greedyMatches) :
                      ConflictOfClaim(C, greedyMatches[i], normalizing)
    IN  /\ ~conflict => greedyMatches' = Append(greedyMatches, C)
        /\ conflict => greedyMatches' = greedyMatches

\* C16, as stated: a candidate is appended if and only if no accepted
\* annotation overlaps it directly or conflicts with it contextually, the
\* terms being alias-equivalent when an alias list contains the other
\* canonical name or the canonical names are equal after normalization.
AcceptIffNoConflictNormalized ==
  [][AcceptedIffNoConflict(TRUE)]_vars

\* C16, amended: the same with the canonical names compared after
\* lowercasing only.
AcceptIffNoConflictLowercased ==
  [][AcceptedIffNoConflict(FALSE)]_vars

\* the scan has just rejected a candidate that overlaps no accepted
\* annotation: it was rejected by the contextual rule
ContextualRejectionWitness ==
  /\ tpc = "scan"
  /\ cursor > 1
  /\ LET C == allMatches[cursor - 1]
     IN  /\ \A i \in 1..Len(greedyMatches) :
              greedyMatches[i] # C /\ ~OverlapsDirectly(C, greedyMatches[i])
         /\ \E i \in 1..Len(greedyMatches) :
              ConflictOfClaim(C, greedyMatches[i], FALSE)

(***************************************************************************)
(* Properties of the outline                                               *)
(***************************************************************************)
\* the headings of the flat list before block i whose level is smaller
\* than the level of block i
ShallowerBefore(secs, i) ==
  {j \in 1..(i - 1) : secs[j].type = "heading" /\ secs[j].level < secs[i].level}

\* C17: the parent of each heading node is the nearest preceding heading of
\* the flat list with a strictly smaller level, a heading without such a
\* predecessor is a root, and no heading nests under a preceding heading of
\* the same or a deeper level.
ParentIsNearestShallower ==
  ppc = "returned" =>
    LET h == structure.hierarchical
    IN  \A n \in 1..Len(h.nodes) :
          LET i       == h.nodes[n].section
              before  == ShallowerBefore(structure.linear, i)
          IN  /\ structure.linear[i].type = "heading"
              /\ IF before = {}
                   THEN h.nodes[n].parent = 0 /\ Includes(h.root, n)
                   ELSE /\ h.nodes[n].parent # 0
                        /\ ~Includes(h.root, n)
                        /\ h.nodes[h.nodes[n].parent].section
                             = CHOOSE j \in before : \A k \in before : k <= j
              /\ h.nodes[n].parent # 0
                   => structure.linear[h.nodes[h.nodes[n].parent].section].level
                        < structure.linear[i].level

\* a returned outline in which a heading nests under a heading that is not
\* the one just before it: the deeper heading in between was popped
ParentIsNearestShallowerWitness ==
  /\ ppc = "returned"
  /\ LET h == structure.hierarchical
     IN  \E n \in 2..Len(h.nodes) :
           h.nodes[n].parent # 0 /\ h.nodes[n].parent < n - 1

\* the spans of a list of annotations, in order
SpansOf(rs) ==
  [i \in 1..Len(rs) |-> [term |-> rs[i].term, start |-> rs[i].start, end |-> rs[i].end]]

\* C18: throughout the greedy scan the accepted list changes only by
\* appending the candidate currently examined; each step moves to the next
\* sorted candidate, never back; the scan returns only after the last
\* candidate, and every annotation accepted is in the result.
ScanOnlyAppends ==
  [][ tpc = "scan" =>
        /\ allMatches' = allMatches
        /\ tpc' = "scan" =>
             /\ cursor <= Len(allMatches)
             /\ cursor' = cursor + 1
             /\ \/ greedyMatches' = greedyMatches
                \/ greedyMatches' = Append(greedyMatches, allMatches[cursor])
        /\ tpc' # "scan" =>
             /\ tpc' = "returned"
             /\ cursor = Len(allMatches) + 1
             /\ greedyMatches' = greedyMatches
             /\ SpansOf(results') = SpansOf(greedyMatches) ]_vars

\* a scan has returned after accepting some candidates and rejecting others
ScanOnlyAppendsWitness ==
  /\ tpc = "returned"
  /\ cursor = Len(allMatches) + 1
  /\ Len(allMatches) >= 3
  /\ Len(results) >= 2
  /\ Len(results) < Len(allMatches)

(***************************************************************************)
(* Properties of the span matcher                                          *)
(***************************************************************************)
\* the keys of the dictionary: canonical terms and aliases
DictionaryKeys ==
  UNION {{dictionary[i].term} \cup {dictionary[i].aliases[k] : k \in 1..Len(dictionary[i].aliases)} :
           i \in 1..Len(dictionary)}

\* the key occurs at offset p of the text, case-insensitively, with no word
\* character immediately before or after it
OccursBounded(key, p) ==
  /\ p + Len(key) <= Len(text)
  /\ ToLowerCase(Substring(text, p, p + Len(key))) = ToLowerCase(key)
  /\ p > 0 => ~IsWordChar(text[p])
  /\ p + Len(key) < Len(text) => ~IsWordChar(text[p + Len(key) + 1])

\* C19: for every key and every position of the text at which the key
\* occurs case-insensitively with no word character immediately before or
\* after it, the span matcher produces a candidate span at that position.
EveryOccurrenceIsCandidate ==
  tpc \in {"scan", "returned"} =>
    \A key \in DictionaryKeys : \A p \in 0..Len(text) :
      OccursBounded(key, p)
        => \E i \in 1..Len(allMatches) :
             allMatches[i].start = p /\ allMatches[i].end = p + Len(key)

(***************************************************************************)
(* Properties of the block scanner                                         *)
(***************************************************************************)
\* after trimming, the line is 1 to 6 '#' characters, whitespace and text
IsHeadingLine(line) ==
  LET trimmed == Trim(line)
      hashes  == LeadingHashes(trimmed)
  IN  /\ hashes \in 1..6
      /\ Len(trimmed) > hashes + 1
      /\ IsWhitespace(trimmed[hashes + 1])

\* a heading line whose text after the '#' characters and the whitespace
\* holds no line terminator
IsOneLineHeading(line) ==
  LET trimmed == Trim(line)
      hashes  == LeadingHashes(trimmed)
      title   == TrimStart(SubSeq(trimmed, hashes + 1, Len(trimmed)))
  IN  /\ IsHeadingLine(line)
      /\ \A k \in 1..Len(title) : title[k] \notin {"\n", "\r"}

\* the offset of the first heading line after offset i, the number of lines
\* when there is none
NextHeadingLine(i) ==
  LET later == {j \in (i + 1)..(Len(lines) - 1) : IsHeadingLine(lines[j + 1])}
  IN  IF later = {} THEN Len(lines) ELSE CHOOSE j \in later : \A k \in later : j <= k

\* the lines after offset i up to the next heading line, joined by newlines
LinesUnderHeading(i) ==
  Join(SubSeq(lines, i + 2, NextHeadingLine(i)), "\n")

\* every heading line starts a Heading block with the level of its '#'
\* characters and with the lines under it as content, trimmed or verbatim
HeadingBlocksAre(trimmedContent, oneLineOnly) ==
  ppc = "returned" =>
    \A i \in 0..(Len(lines) - 1) :
      (IF oneLineOnly THEN IsOneLineHeading(lines[i + 1]) ELSE IsHeadingLine(lines[i + 1])) =>
        \E s \in 1..Len(sections) :
          /\ sections[s].type = "heading"
          /\ sections[s].range.start.line = i
          /\ sections[s].level = LeadingHashes(Trim(lines[i + 1]))
          /\ sections[s].content =
               IF trimmedContent THEN Trim(LinesUnderHeading(i)) ELSE LinesUnderHeading(i)

OnlyHeadingsAfterHeading ==
  ppc = "returned" =>
    /\ \A i \in 1..Len(sections) : \A j \in 1..Len(sections) :
         (i < j /\ sections[i].type = "heading") => sections[j].type = "heading"
    /\ \A i \in 1..(Len(sections) - 1) :
         sections[i].type = "structured" => sections[i + 1].type = "heading"
    /\ Cardinality({i \in 1..Len(sections) : sections[i].type = "structured"}) <= 1

\* ---------------------------------------------------------------------
\* the rules of the specification, in its order: a section type and the
\* words that select it
TitleRules ==
  << [type |-> "medications", words |-> {<<"m","e","d","i","c","a","t","i","o","n">>, <<"m","e","d">>}],
     [type |-> "allergies", words |-> {<<"a","l","l","e","r","g">>}],
     [type |-> "chief-complaint", words |-> {<<"c","h","i","e","f">>, <<"c","o","m","p","l","a","i","n","t">>}],
     [type |-> "hpi", words |-> {<<"h","p","i">>, <<"h","i","s","t","o","r","y">>, <<"i","l","l","n","e","s","s">>}],
     [type |-> "assessment-plan", words |-> {<<"a","s","s","e","s","s","m","e","n","t">>, <<"p","l","a","n">>}],
     [type |-> "patient-info", words |-> {<<"p","a","t","i","e","n","t">>}] >>

\* the rules whose words occur in the title, letter case ignored
RulesMatching(title) ==
  {r \in 1..Len(TitleRules) :
     \E w \in TitleRules[r].words : StringIncludes(ToLowerCase(title), w)}

\* C22: the sectionType of a heading is that of the first rule, in the fixed
\* order, with a word that occurs in the title, letter case ignored; a
\* heading whose title matches no rule has no sectionType.
FirstMatchingRuleWins ==
  (ppc = "returned" /\ Len(sections) = 1 /\ sections[1].type = "heading") =>
    LET matching == RulesMatching(sections[1].title)
    IN  sections[1].metadata.sectionType =
          IF matching = {}
            THEN "none"
            ELSE TitleRules[CHOOSE r \in matching : \A q \in matching : r <= q].type

\* a parsed heading whose title matches the allergies rule and the
\* medications rule both
FirstMatchingRuleWitness ==
  /\ ppc = "returned"
  /\ Len(sections) = 1
  /\ sections[1].type = "heading"
  /\ {1, 2} \subseteq RulesMatching(sections[1].title)
  /\ sections[1].metadata.sectionType = "medications"

\* ---------------------------------------------------------------------
\* a line that begins with '#' after trimming and does not match the
\* heading pattern
IsMalformedHeading(line) ==
  /\ Trim(line) # <<>>
  /\ Trim(line)[1] = "#"
  /\ ~IsOneLineHeading(line)

\* the blocks whose line range holds the line at offset i
BlocksCovering(i) ==
  {s \in 1..Len(sections) :
     sections[s].range.start.line <= i /\ i <= sections[s].range.end.line}

\* C23, as stated: a line beginning with '#' that does not match the heading
\* pattern is classified as a Text block and never produces a Heading block.
MalformedHeadingIsTextBlock ==
  ppc = "returned" =>
    \A i \in 0..(Len(lines) - 1) :
      IsMalformedHeading(lines[i + 1]) =>
        /\ \E s \in BlocksCovering(i) : sections[s].type = "text"
        /\ \A s \in 1..Len(sections) :
             sections[s].type = "heading" => sections[s].range.start.line # i

\* C23, amended: such a line never starts a Heading block; it lies in
\* exactly one block, whose content holds it, and that block is a Text block
\* when the line is its first line.
MalformedHeadingIsText ==
  ppc = "returned" =>
    \A i \in 0..(Len(lines) - 1) :
      IsMalformedHeading(lines[i + 1]) =>
        /\ Cardinality(BlocksCovering(i)) = 1
        /\ \A s \in BlocksCovering(i) :
             /\ sections[s].range.start.line = i => sections[s].type = "text"
             /\ StringIncludes(sections[s].content, Trim(lines[i + 1]))
        /\ \A s \in 1..Len(sections) :
             sections[s].type = "heading" => sections[s].range.start.line # i

\* a returned document with a malformed heading line that starts a Text
\* block and a malformed heading line inside the content of a Heading block
MalformedHeadingWitness ==
  /\ ppc = "returned"
  /\ Len(lines) = 3
  /\ IsMalformedHeading(lines[1])
  /\ IsMalformedHeading(lines[3])
  /\ Len(sections) = 2
  /\ sections[1].type = "text"
  /\ sections[2].type = "heading"
  /\ sections[2].range.end.line = 2

\* ---------------------------------------------------------------------
\* the node of a heading section, and the sibling list that holds a node:
\* the children of its parent, or the list of root nodes
NodeOfSection(section) ==
  CHOOSE n \in 1..Len(structure.hierarchical.nodes) :
    structure.hierarchical.nodes[n].section = section

SiblingListOf(node) ==
  IF structure.hierarchical.nodes[node].parent = 0
    THEN structure.hierarchical.root
    ELSE structure.hierarchical.nodes[structure.hierarchical.nodes[node].parent].children

PositionIn(list, node) ==
  CHOOSE p \in 1..Len(list) : list[p] = node

\* the section after (offset 1) or before (offset -1) a heading section in
\* its sibling list, 0 at the end of the list
NeighbourInSiblingList(section, offset) ==
  LET node == NodeOfSection(section)
      list == SiblingListOf(node)
      p    == PositionIn(list, node) + offset
  IN  IF p \in 1..Len(list) THEN structure.hierarchical.nodes[list[p]].section ELSE 0

\* C24: getNextSibling of a heading returns the heading after it in its
\* sibling list (the children of one parent, or the root nodes) and
\* getPreviousSibling the heading before it; null is returned only for the
\* last, respectively first, node of the list.
SiblingsAreListNeighbours ==
  (npc = "returned" /\ sections[navSection].type = "heading") =>
    navResult = NeighbourInSiblingList(navSection, IF navOp = "next" THEN 1 ELSE -1)

\* ---------------------------------------------------------------------
\* the offsets of the Heading blocks in the flat list, in list order
RECURSIVE HeadingsOfFlatList(_)
HeadingsOfFlatList(i) ==
  IF i > Len(sections)
    THEN <<>>
    ELSE (IF sections[i].type = "heading" THEN <<i>> ELSE <<>>) \o HeadingsOfFlatList(i + 1)

\* C25: the pre-order traversal of the hierarchy visits exactly the Heading
\* blocks of the flat list, each once and in flat-list order.
OutlineIsHeadingsInOrder ==
  opc = "returned" =>
    [k \in 1..Len(outline) |-> outline[k].section] = HeadingsOfFlatList(1)

\* an outline of three headings: a root with a child, then a second root
OutlineWitness ==
  /\ opc = "returned"
  /\ Len(outline) = 3
  /\ outline[1].depth = 1
  /\ outline[2].depth = 2
  /\ outline[3].depth = 1
  /\ Len(structure.hierarchical.root) = 2

\* ---------------------------------------------------------------------
\* C26: parse terminates on every input: each iteration of the main loop
\* strictly increases the line cursor and leaves it within the lines, so
\* the distance to the end of the lines decreases with every iteration and
\* the loop runs at most once per line.
ParseTerminates ==
  [][(ppc = "loop" /\ ppc' = "loop") =>
       /\ currentLine < Len(lines)
       /\ currentLine' > currentLine
       /\ currentLine' <= Len(lines)
       /\ lines' = lines]_vars

\* a call that returned from three lines, the first of them blank: the
\* cursor passed a blank line and the lines of a block
ParseTerminatesWitness ==
  /\ ppc = "returned"
  /\ Len(lines) = 3
  /\ lines[1] = <<>>
  /\ Len(sections) >= 1
  /\ currentLine = 3

\* ---------------------------------------------------------------------
\* C27: the blocks of the flat list have line ranges with start.line <=
\* end.line that are pairwise disjoint and strictly increasing in list
\* order, and every non-blank line of the input lies inside the range of
\* exactly one block.
RangesPartitionLines ==
  ppc = "returned" =>
    /\ \A s \in 1..Len(sections) :
         /\ 0 <= sections[s].range.start.line
         /\ sections[s].range.start.line <= sections[s].range.end.line
         /\ sections[s].range.end.line < Len(lines)
    /\ \A s \in 1..(Len(sections) - 1) :
         sections[s].range.end.line < sections[s + 1].range.start.line
    /\ \A i \in 0..(Len(lines) - 1) :
         Trim(lines[i + 1]) # <<>> =>
           Cardinality({s \in 1..Len(sections) :
                          /\ sections[s].range.start.line <= i
                          /\ i <= sections[s].range.end.line}) = 1

\* a returned document of a Text block, a KeyValue block and a Heading
\* block, one line each
RangesPartitionWitness ==
  /\ ppc = "returned"
  /\ Len(lines) = 3
  /\ Len(sections) = 3
  /\ sections[1].type = "text"
  /\ sections[2].type = "structured"
  /\ sections[3].type = "heading"
  /\ sections[3].range.start.line = 2

\* ---------------------------------------------------------------------
\* the offset in the document of a position: the start of its line plus its
\* character
OffsetOfPosition(document, position) ==
  LET breaks == {i \in 1..Len(document) : document[i] = "\n"}
      before == {i \in breaks : Cardinality({j \in breaks : j <= i}) = position.line}
  IN  (IF before = {} THEN 0 ELSE CHOOSE i \in before : TRUE) + position.character

\* C28: the range of every ALLERGY_CONFLICT diagnostic is the position of
\* the matched medication text in the whole document: the text of the
\* document from its start to its end is the matched text, on the lines of
\* the Medications section under its heading.
ConflictRangeIsDocumentPosition ==
  dpc = "returned" =>
    \A i \in 1..Len(diagnostics) :
      diagnostics[i].code = "ALLERGY_CONFLICT" =>
        LET range       == diagnostics[i].range
            medications == sections[getSectionByType([sections |-> sections,
                                                       structure |-> structure],
                                                      "medications")]
        IN  /\ Substring(content, OffsetOfPosition(content, range.start),
                         OffsetOfPosition(content, range.end))
                 = diagnostics[i].match
            /\ medications.range.start.line < range.start.line
            /\ range.end.line <= medications.range.end.line

\* ---------------------------------------------------------------------
\* C29: once a document has been closed, the server sends no further
\* diagnostics for its uri, also when a validation started before the close
\* was awaiting the settings at the moment of the close: every
\* sendDiagnostics is for a document that is open.
NoDiagnosticsAfterClose ==
  \A k \in 1..Len(published) : published[k].open

\* ---------------------------------------------------------------------
\* the codes and diagnostics the main thread stores for every uri are those
\* of the text sent last for that uri
StoresLatest ==
  \A uri \in Uris :
    MapHas(sentText, uri) =>
      /\ MapGet(mainExtractedCodes, uri) = MetadataUpdate(uri, MapGet(sentText, uri)).codes
      /\ MapGet(mainDiagnostics, uri) = MetadataUpdate(uri, MapGet(sentText, uri)).diagnostics

\* C30: for every 'document-changed' message the worker posts exactly one
\* 'metadata-update' with the same uri, computed from the text of that
\* message, after the updates posted before it; and after all queued
\* changes are processed the main thread stores, for every uri, the codes
\* and diagnostics of the text sent last for it.
UpdatesFollowChanges ==
  /\ [][toWorker # <<>> /\ toWorker' = Tail(toWorker) =>
          toMain' = Append(toMain, MetadataUpdate(Head(toWorker).uri, Head(toWorker).text))]_vars
  /\ []((toWorker = <<>> /\ toMain = <<>>) => StoresLatest)
  /\ <>[](toWorker = <<>> /\ toMain = <<>> /\ StoresLatest)

\* two changes of one uri were sent and processed, and the stored
\* diagnostics are the warning of the second text
UpdatesFollowChangesWitness ==
  /\ changes = 2
  /\ toWorker = <<>>
  /\ toMain = <<>>
  /\ Len(sentText) = 1
  /\ MapHas(mainDiagnostics, "a")
  /\ MapGet(mainDiagnostics, "a") # <<>>

====
